---- MODULE Spec2Model ----
(***************************************************************************)
(* Model of the note-maker backend's authentication routes                 *)
(* (routes/auth.ts), the User model (models/User.ts) and the helpers they  *)
(* call (utils/email.ts, utils/jwt.ts), the authenticate middleware        *)
(* (middleware/auth.ts) in front of GET /api/auth/me, and the notes        *)
(* router (routes/notes.ts).                                               *)
(*                                                                         *)
(* Every handler is cut at its awaits on the store: the steps of one       *)
(* request are separate actions, and between them the steps of other       *)
(* requests may run (Spec).  SpecSeq is the same program with requests     *)
(* executed one after another.  SpecGate adds the session token a client   *)
(* keeps and the protected request it makes with it; SpecNotes is the      *)
(* notes router behind the middleware.                                     *)
(***************************************************************************)
EXTENDS Integers, Sequences, FiniteSets, TLC

VARIABLES
  users,      \* the User collection; a document's _id is its index
  req,        \* one record per request slot: position, inputs, loaded document, response
  now,        \* Date.now()
  accepted,   \* history, kept when requests run one after another: the
              \* (email, otp) pairs verify-otp has answered with success
  lastGoogle, \* history, kept when requests run one after another: the
              \* request answered last, if it was a successful federated login
  session,    \* the token the client keeps (localStorage 'token')
  gate,       \* the request to GET /api/auth/me passing through authenticate
  deleted,    \* the _ids of the User documents removed from the collection
  notes,      \* the Note collection; a document's _id is its index
  nreq,       \* one record per request to the notes router
  lastPin,    \* history, kept when requests run one after another: the note
              \* of the last successful toggle-pin and its isPinned before
              \* it, while nothing else has written to the notes since
  nodeEnv,    \* process.env.NODE_ENV of the server, "" when unset
  client      \* the web client: localStorage, the state of AuthProvider and
              \* the position of its startup check

gateVars == <<session, gate, deleted>>

noteVars == <<notes, nreq, lastPin>>

vars ==
  <<users, req, now, accepted, lastGoogle, session, gate, deleted, notes, nreq,
    lastPin, nodeEnv, client>>

----------------------------------------------------------------------------
(* Bounds of the model *)

MaxUsers == 3           \* cap on the size of the users collection
RandSteps == 2          \* Math.random() is k / RandSteps, k in 0..RandSteps-1
TickStep == 600000      \* the clock advances in steps of this many ms
MaxTime == 600000       \* the clock stops here
MaxNotes == 2           \* cap on the number of notes ever created

\* the requests that can be in flight together
Reqs == {1, 2}

----------------------------------------------------------------------------
(* Values *)

Absent == -1            \* an undefined otp / otpExpiry field
NoPassword == <<>>      \* an undefined password field
NoGoogleId == ""        \* an undefined googleId field

\* Emails are sequences of characters, so that lowercasing is computed.
Emails == { <<"a", "@", "x">>, <<"A", "@", "x">>, <<"b", "@", "x">> }
Passwords == {"secret1", "secret2"}      \* submitted at login
SignupPasswords == {"secret1"}           \* chosen at signup
LongName == "nnnnnnnnnnnnnnnnnnnnnnnnnnnnnnnnnnnnnnnnnnnnnnnnnnn"   \* 51 characters
\* request bodies of signup: one that the schema accepts, and bodies with
\* an email without "@", a short password, an empty, a missing and an
\* over-long name
SignupBodies ==
  { [email |-> <<"a", "@", "x">>, password |-> "secret1", firstName |-> "n", lastName |-> "n"],
    [email |-> <<"a", "x">>, password |-> "secret1", firstName |-> "n", lastName |-> "n"],
    [email |-> <<"a", "@", "x">>, password |-> "abc", firstName |-> "n", lastName |-> "n"],
    [email |-> <<"a", "@", "x">>, password |-> "secret1", firstName |-> "", lastName |-> "n"],
    [email |-> <<"b", "@", "x">>, password |-> "secret1", lastName |-> "n"],
    [email |-> <<"b", "@", "x">>, password |-> "secret1", firstName |-> "n", lastName |-> LongName] }
Subs == {"g1", "g2"}                     \* subjects of federated profiles
SubsConc == {"g1"}                       \* the subjects tried under interleaving

LowerChar(c) == IF c = "A" THEN "a" ELSE IF c = "B" THEN "b" ELSE c

\* schema option lowercase: true (applied to documents and to query filters)
Lower(e) == [i \in DOMAIN e |-> LowerChar(e[i])]

\* bcrypt.hash: one-way, the model keeps the plaintext inside a tag
Hash(p) == <<"bcrypt", p>>

\* userSchema.methods.comparePassword
comparePassword(stored, password) ==
  IF stored = NoPassword THEN FALSE ELSE stored = Hash(password)

OtpTtl == 10 * 60 * 1000

\* mutant: the offset 100000 is left out
generateOTP_NoOffset(k) == (k * 900000) \div RandSteps

\* generateOTP with Math.random() = k / RandSteps
generateOTP(k) == 100000 + ((k * 900000) \div RandSteps)

RECURSIVE NumDigits(_)
\* length of Number.prototype.toString() of a non-negative integer
NumDigits(n) == IF n < 10 THEN 1 ELSE 1 + NumDigits(n \div 10)

\* the codes a client may submit: every code that can be issued, and one
\* 6-character code that is never issued
WrongOtp == 123456
OtpInputs == {generateOTP(k) : k \in 0..(RandSteps - 1)} \cup {WrongOtp}

\* process.env.JWT_EXPIRE || '7d', in seconds
JwtExpire == 7 * 24 * 60 * 60

\* process.env.JWT_SECRET || 'default-secret'
JwtSecret == "default-secret"

\* A token string is modelled by what jwt.verify reads from it: the claims,
\* iat and exp in seconds, and sig, the secret its signature was made
\* with ("" for a string that is not a signed token at all).
NoToken == [userId |-> 0, email |-> <<>>, iat |-> 0, exp |-> 0, sig |-> ""]

\* mutant: the identity claim is not taken from the account
generateToken_FirstAccount(id, u) ==
  [userId |-> 1, email |-> u.email,
   iat |-> now \div 1000, exp |-> (now \div 1000) + JwtExpire, sig |-> JwtSecret]

\* generateToken: jwt.sign stamps iat = floor(Date.now() / 1000) and
\* exp = iat + expiresIn, and signs with the secret
generateToken(id, u) ==
  [userId |-> id, email |-> u.email,
   iat |-> now \div 1000, exp |-> (now \div 1000) + JwtExpire, sig |-> JwtSecret]

NoPayload == [ok |-> FALSE, userId |-> 0, email |-> <<>>]

\* mutant: a token is still accepted at its expiry instant
verifyToken_AtExpiry(token, t) ==
  IF token.sig = JwtSecret /\ (t \div 1000) <= token.exp
    THEN [ok |-> TRUE, userId |-> token.userId, email |-> token.email]
    ELSE NoPayload

\* mutant: the signature is not checked
verifyToken_Unsigned(token, t) ==
  IF token.sig # "" /\ (t \div 1000) < token.exp
    THEN [ok |-> TRUE, userId |-> token.userId, email |-> token.email]
    ELSE NoPayload

\* verifyToken at time t: jwt.verify throws (ok = FALSE) on a malformed
\* string, on a signature made with another secret, and when
\* floor(Date.now() / 1000) >= exp; otherwise it returns the claims
verifyToken(token, t) ==
  IF token.sig = JwtSecret /\ (t \div 1000) < token.exp
    THEN [ok |-> TRUE, userId |-> token.userId, email |-> token.email]
    ELSE NoPayload

NoResp == [status |-> 0, message |-> "", token |-> NoToken, mailed |-> "none"]

Resp(status, message, token, mailed) ==
  [status |-> status, message |-> message, token |-> token, mailed |-> mailed]

IdleReq ==
  [pc |-> "idle", kind |-> "none", email |-> <<>>, otp |-> Absent,
   password |-> "", sub |-> "", doc |-> 0, resp |-> NoResp]

NoGoogle == [sub |-> "", email |-> <<>>, doc |-> 0]

\* The Authorization header, by what authenticate reads from it: whether
\* it is there, its first seven characters, and the string after them.
NoHeader == [present |-> FALSE, prefix |-> "", rest |-> NoToken]

Bearer(token) == [present |-> TRUE, prefix |-> "Bearer ", rest |-> token]

\* a token whose signature was made with another secret
Forged(token) == [token EXCEPT !.sig = "other-secret"]

\* the headers a client holding token may send
Headers(token) ==
  {NoHeader,
   [present |-> TRUE, prefix |-> "Token: ", rest |-> token],
   [present |-> TRUE, prefix |-> "bearer ", rest |-> token],
   Bearer(token), Bearer(Forged(token)), Bearer(NoToken)}

NoUser == [id |-> 0, email |-> <<>>, isEmailVerified |-> FALSE, googleId |-> NoGoogleId]

NoBody == [id |-> 0, email |-> <<>>, isEmailVerified |-> FALSE]

\* the identities authenticate attaches to the requests of the notes router
NoteUsers == {1, 2}

Titles == {"t1", "t2"}

\* a request body of POST and PUT /api/notes: the title, and possibly a
\* userId key the client adds (Absent when it does not)
Bodies == [title : Titles, userId : {Absent} \cup NoteUsers]

NoNoteBody == [title |-> "", userId |-> Absent]

\* a note id that is not an ObjectId
InvalidId == 0

\* what is left at the _id of a note that was deleted
RemovedNote ==
  [userId |-> 0, title |-> "", isPinned |-> FALSE, removed |-> TRUE,
   updatedAt |-> 0]

NoPin == [id |-> 0, before |-> FALSE]

\* page is data.notes of a list, in the order of the answer
IdleNote ==
  [pc |-> "idle", op |-> "none", user |-> 0, id |-> 0, body |-> NoNoteBody,
   loaded |-> FALSE, status |-> 0, message |-> "", data |-> {},
   total |-> 0, pinned |-> 0, page |-> <<>>]

\* storeFailed records that the lookup of the account threw
IdleGate ==
  [pc |-> "idle", header |-> NoHeader, userId |-> 0, status |-> 0,
   message |-> "", next |-> FALSE, user |-> NoUser, body |-> NoBody,
   storeFailed |-> FALSE]

----------------------------------------------------------------------------
(* The User collection *)

\* new User({...}) followed by the pre('save') hook: the email is
\* lowercased by the schema, the password is hashed when it is set
\* mutant: isEmailVerified is left to its schema default
NewUser_Unverified(email, password, googleId, verified, otp, otpExpiry) ==
  [email |-> Lower(email),
   password |-> IF password = "" THEN NoPassword ELSE Hash(password),
   isEmailVerified |-> FALSE,
   googleId |-> googleId,
   otp |-> otp,
   otpExpiry |-> otpExpiry]

NewUser(email, password, googleId, verified, otp, otpExpiry) ==
  [email |-> Lower(email),
   password |-> IF password = "" THEN NoPassword ELSE Hash(password),
   isEmailVerified |-> verified,
   googleId |-> googleId,
   otp |-> otp,
   otpExpiry |-> otpExpiry]

\* the string that a stored hash is when it is read back as this.password
HashText(h) == "$2a$12$" \o h[2]

\* mutant: the hook hashes this.password on every save
PreSave_Always(doc, modified) ==
  IF doc.password = NoPassword
    THEN doc
    ELSE [doc EXCEPT !.password = Hash(HashText(@))]

\* userSchema.pre('save') on a loaded document whose paths in modified
\* were assigned: the password is hashed only when it was assigned
PreSave(doc, modified) ==
  IF "password" \notin modified \/ doc.password = NoPassword
    THEN doc
    ELSE [doc EXCEPT !.password = Hash(HashText(@))]

\* mutant: the schema declares no unique index on email
DuplicateKey_NoIndex(coll, doc) == FALSE

\* the unique index on email: does inserting doc raise E11000 ?
DuplicateKey(coll, doc) == \E i \in DOMAIN coll : coll[i].email = doc.email

\* User.findOne({ email })
FindByEmail(coll, email) == {i \in DOMAIN coll : coll[i].email = Lower(email)}

\* mutant: the filter leaves out isEmailVerified: false
FindForVerify_IgnoresVerified(coll, email, otp, t) ==
  {i \in DOMAIN coll : /\ coll[i].email = Lower(email)
                       /\ coll[i].otp # Absent
                       /\ coll[i].otp = otp
                       /\ coll[i].otpExpiry # Absent
                       /\ coll[i].otpExpiry > t}

\* mutant: the expiry is compared with $lt
FindForVerify_ExpiredOnly(coll, email, otp, t) ==
  {i \in DOMAIN coll : /\ coll[i].email = Lower(email)
                       /\ coll[i].otp # Absent
                       /\ coll[i].otp = otp
                       /\ coll[i].otpExpiry # Absent
                       /\ coll[i].otpExpiry < t
                       /\ coll[i].isEmailVerified = FALSE}

\* User.findOne({ email, otp, otpExpiry: { $gt: new Date() }, isEmailVerified: false })
FindForVerify(coll, email, otp, t) ==
  {i \in DOMAIN coll : /\ coll[i].email = Lower(email)
                       /\ coll[i].otp # Absent
                       /\ coll[i].otp = otp
                       /\ coll[i].otpExpiry # Absent
                       /\ coll[i].otpExpiry > t
                       /\ coll[i].isEmailVerified = FALSE}

\* mutant: the filter leaves out isEmailVerified: false
FindForResend_IgnoresVerified(coll, email) ==
  {i \in DOMAIN coll : coll[i].email = Lower(email)}

\* User.findOne({ email, isEmailVerified: false })
FindForResend(coll, email) ==
  {i \in DOMAIN coll : /\ coll[i].email = Lower(email)
                       /\ coll[i].isEmailVerified = FALSE}

\* mutant: the documents matching either branch come in no particular order
FindForGoogle_AnyOrder(coll, email, googleId) ==
  {i \in DOMAIN coll : \/ coll[i].email = Lower(email)
                       \/ coll[i].googleId = googleId}

\* User.findOne({ $or: [{ email }, { googleId }] }): the documents findOne
\* may return.  The store answers the $or branch by branch from the
\* indexes on email and on googleId, so a document matching the email is
\* returned before one that matches the googleId only.
FindForGoogle(coll, email, googleId) ==
  LET byEmail == {i \in DOMAIN coll : coll[i].email = Lower(email)}
      byGoogleId == {i \in DOMAIN coll : coll[i].googleId = googleId}
  IN IF byEmail # {} THEN byEmail ELSE byGoogleId

----------------------------------------------------------------------------
(* The web client: localStorage and the state of AuthProvider *)

\* the session tokens and the user objects the client handles
ClientTokens == {"t1", "t2"}

ClientUsers == {"u1", "u2"}

\* the user object the backend answers for a session token
Holder(t) == IF t = "t1" THEN "u1" ELSE "u2"

\* the answers of GET /auth/me the startup check tells apart: success with
\* data, success without data, an unsuccessful response, a rejected promise
MeOutcomes == {"ok", "nodata", "unsuccessful", "throw"}

\* no AuthProvider is mounted: the state of the client in the
\* specifications of the backend
ClientOff ==
  [token |-> "none", stored |-> "none", user |-> "none", isLoading |-> TRUE,
   pc |-> "off", sent |-> "none", answer |-> "none", form |-> "none",
   touched |-> FALSE]

\* AuthProvider as mounted: useState(null), useState(true), with what an
\* earlier visit left in localStorage under 'token' and 'user'
Mounted(token, stored) ==
  [ClientOff EXCEPT !.token = token, !.stored = stored, !.pc = "mount"]

\* AuthService.getStoredToken()
getStoredToken(c) == c.token

\* AuthService.getStoredUser()
getStoredUser(c) == c.stored

\* isAuthenticated: !!user
isAuthenticated(c) == c.user # "none"

\* AuthService.logout(): removes 'token' and 'user' from localStorage
AuthServiceLogout(c) == [c EXCEPT !.token = "none", !.stored = "none"]

\* mutant: a rejected token is left in localStorage
Rejected_KeepsStorage(c) == c

\* initializeAuth, the else and catch branches: AuthService.logout()
Rejected(c) == AuthServiceLogout(c)

----------------------------------------------------------------------------
(* Initial state: an empty collection, no request in flight *)

\* the values of NODE_ENV a deployment may run with
Envs == {"development", "Development", "production", "test", ""}

\* the server is started with one of them
InitEnv ==
  /\ nodeEnv \in Envs
  /\ client = ClientOff
  /\ users = <<>>
  /\ req = [r \in Reqs |-> IdleReq]
  /\ now = 0
  /\ accepted = {}
  /\ lastGoogle = NoGoogle
  /\ session = NoToken
  /\ gate = IdleGate
  /\ deleted = {}
  /\ notes = <<>>
  /\ nreq = [r \in Reqs |-> IdleNote]
  /\ lastPin = NoPin

\* a production deployment
Init ==
  /\ nodeEnv = "production"
  /\ client = ClientOff
  /\ users = <<>>
  /\ req = [r \in Reqs |-> IdleReq]
  /\ now = 0
  /\ accepted = {}
  /\ lastGoogle = NoGoogle
  /\ session = NoToken
  /\ gate = IdleGate
  /\ deleted = {}
  /\ notes = <<>>
  /\ nreq = [r \in Reqs |-> IdleNote]
  /\ lastPin = NoPin

\* a response is delivered (Finish) before any other step is taken
Delivered == \A q \in Reqs : req[q].pc # "done"

\* a request may enter a free slot; with serial, only when no other
\* request is between its first and its last step
CanStart(r, serial) ==
  /\ Delivered
  /\ req[r].pc = "idle"
  /\ serial => \A q \in Reqs : req[q].pc = "idle"

Done(r, kind, email, otp, password, sub, doc, resp) ==
  req' = [req EXCEPT ![r] =
            [pc |-> "done", kind |-> kind, email |-> email, otp |-> otp,
             password |-> password, sub |-> sub, doc |-> doc, resp |-> resp]]

Await(r, pc, kind, email, otp, password, sub, doc) ==
  req' = [req EXCEPT ![r] =
            [pc |-> pc, kind |-> kind, email |-> email, otp |-> otp,
             password |-> password, sub |-> sub, doc |-> doc, resp |-> NoResp]]

----------------------------------------------------------------------------
(* POST /api/auth/signup *)

SignupFind(r, serial, email, password) ==
  /\ CanStart(r, serial)
  /\ IF FindByEmail(users, email) # {}
       THEN Done(r, "signup", email, Absent, password, "", 0,
                 Resp(400, "User already exists with this email", NoToken, "none"))
       ELSE Await(r, "signup_save", "signup", email, Absent, password, "", 0)
  /\ UNCHANGED <<users, now, accepted>>
  /\ UNCHANGED <<lastGoogle, nodeEnv, client, gateVars, noteVars>>

\* Joi.string().email(): one "@" with something before and after it
ValidEmail(e) ==
  /\ Cardinality({i \in DOMAIN e : e[i] = "@"}) = 1
  /\ \E i \in DOMAIN e : e[i] = "@" /\ 1 < i /\ i < Len(e)

\* Joi.string().min(1).max(50).required()
NameError(body, key) ==
  IF key \notin DOMAIN body THEN key \o " is required"
  ELSE IF Len(body[key]) = 0 THEN key \o " is not allowed to be empty"
  ELSE IF Len(body[key]) > 50
    THEN key \o " length must be less than or equal to 50 characters long"
  ELSE ""

\* mutant: the schema does not bound the length of the password
SignupError_AnyPassword(body) ==
  IF "email" \notin DOMAIN body THEN "email is required"
  ELSE IF ~ValidEmail(body.email) THEN "email must be a valid email"
  ELSE IF "password" \notin DOMAIN body THEN "password is required"
  ELSE IF NameError(body, "firstName") # "" THEN NameError(body, "firstName")
  ELSE NameError(body, "lastName")

\* signupSchema.validate(req.body): the message of the first error in the
\* order of the keys of the schema, "" when the body is accepted
SignupError(body) ==
  IF "email" \notin DOMAIN body THEN "email is required"
  ELSE IF ~ValidEmail(body.email) THEN "email must be a valid email"
  ELSE IF "password" \notin DOMAIN body THEN "password is required"
  ELSE IF Len(body.password) < 6
    THEN "password length must be at least 6 characters long"
  ELSE IF NameError(body, "firstName") # "" THEN NameError(body, "firstName")
  ELSE NameError(body, "lastName")

\* the handler from the validation of the body on: a rejected body is
\* answered 400 with the message of the schema, an accepted one goes on to
\* the lookup of the email
SignupValidate(r, serial, body) ==
  IF SignupError(body) # ""
    THEN /\ CanStart(r, serial)
         /\ Done(r, "signup",
                 IF "email" \in DOMAIN body THEN body.email ELSE <<>>, Absent,
                 IF "password" \in DOMAIN body THEN body.password ELSE "", "", 0,
                 Resp(400, SignupError(body), NoToken, "none"))
         /\ UNCHANGED <<users, now, accepted>>
         /\ UNCHANGED <<lastGoogle, nodeEnv, client, gateVars, noteVars>>
    ELSE SignupFind(r, serial, body.email, body.password)

\* mutant: a failure of sendOTPEmail fails the signup
SignupResp_MailFailureFails(mailOk) ==
  IF mailOk
    THEN Resp(201, "User registered successfully. Please check your email for OTP verification.",
              NoToken, "sent")
    ELSE Resp(500, "Server error during signup", NoToken, "failed")

\* the answer after user.save(): a failure of sendOTPEmail is caught and
\* logged, the answer is 201 either way
SignupResp(mailOk) ==
  Resp(201, "User registered successfully. Please check your email for OTP verification.",
       NoToken, IF mailOk THEN "sent" ELSE "failed")

SignupSave(r) ==
  /\ Delivered
  /\ req[r].pc = "signup_save"
  /\ \E k \in 0..(RandSteps - 1), mailOk \in BOOLEAN :
       LET otp == generateOTP(k)
           otpExpiry == now + OtpTtl
           user == NewUser(req[r].email, req[r].password, NoGoogleId, FALSE,
                           otp, otpExpiry)
       IN IF DuplicateKey(users, user)
            THEN /\ Done(r, "signup", req[r].email, Absent, req[r].password, "", 0,
                         Resp(500, "Server error during signup", NoToken, "none"))
                 /\ UNCHANGED users
            ELSE /\ Len(users) < MaxUsers
                 /\ users' = Append(users, user)
                 /\ Done(r, "signup", req[r].email, otp, req[r].password, "",
                         Len(users) + 1, SignupResp(mailOk))
  /\ UNCHANGED <<now, accepted>>
  /\ UNCHANGED <<lastGoogle, nodeEnv, client, gateVars, noteVars>>

----------------------------------------------------------------------------
(* POST /api/auth/verify-otp *)

VerifyFind(r, serial, email, otp) ==
  /\ CanStart(r, serial)
  /\ LET ids == FindForVerify(users, email, otp, now)
     IN IF ids = {}
          THEN Done(r, "verify", email, otp, "", "", 0,
                    Resp(400, "Invalid or expired OTP", NoToken, "none"))
          ELSE \E i \in ids :
                 Await(r, "verify_save", "verify", email, otp, "", "", i)
  /\ UNCHANGED <<users, now, accepted>>
  /\ UNCHANGED <<lastGoogle, nodeEnv, client, gateVars, noteVars>>

\* mutant: the handler never saves the document it changed
SaveVerified_NotSaved(coll, i) == coll

\* user.save() of the loaded document: $set isEmailVerified, $unset otp, otpExpiry
SaveVerified(coll, i) ==
  [coll EXCEPT ![i] = PreSave([@ EXCEPT !.isEmailVerified = TRUE,
                                        !.otp = Absent, !.otpExpiry = Absent],
                              {"isEmailVerified", "otp", "otpExpiry"})]

VerifySave(r, serial) ==
  /\ Delivered
  /\ req[r].pc = "verify_save"
  /\ users' = SaveVerified(users, req[r].doc)
  /\ Done(r, "verify", req[r].email, req[r].otp, "", "", req[r].doc,
          Resp(200, "Email verified successfully",
               generateToken(req[r].doc, users[req[r].doc]), "none"))
  /\ accepted' = IF serial
                    THEN accepted \cup {[email |-> users[req[r].doc].email,
                                         otp |-> req[r].otp]}
                    ELSE accepted
  /\ UNCHANGED now
  /\ UNCHANGED <<lastGoogle, nodeEnv, client, gateVars, noteVars>>

----------------------------------------------------------------------------
(* POST /api/auth/login *)

\* mutant: the password is compared before the verified flag is looked at
LoginResp_PasswordFirst(coll, ids, i, password) ==
  IF ids = {}
    THEN Resp(401, "Invalid credentials", NoToken, "none")
  ELSE IF ~comparePassword(coll[i].password, password)
    THEN Resp(401, "Invalid credentials", NoToken, "none")
  ELSE IF ~coll[i].isEmailVerified
    THEN Resp(401, "Please verify your email before logging in", NoToken, "none")
  ELSE Resp(200, "Login successful", generateToken(i, coll[i]), "none")

\* mutant: the verified flag is not looked at
LoginResp_NoVerifiedCheck(coll, ids, i, password) ==
  IF ids = {}
    THEN Resp(401, "Invalid credentials", NoToken, "none")
  ELSE IF ~comparePassword(coll[i].password, password)
    THEN Resp(401, "Invalid credentials", NoToken, "none")
  ELSE Resp(200, "Login successful", generateToken(i, coll[i]), "none")

\* the four branches of the handler after User.findOne({ email })
LoginResp(coll, ids, i, password) ==
  IF ids = {}
    THEN Resp(401, "Invalid credentials", NoToken, "none")
  ELSE IF ~coll[i].isEmailVerified
    THEN Resp(401, "Please verify your email before logging in", NoToken, "none")
  ELSE IF ~comparePassword(coll[i].password, password)
    THEN Resp(401, "Invalid credentials", NoToken, "none")
  ELSE Resp(200, "Login successful", generateToken(i, coll[i]), "none")

Login(r, serial, email, password) ==
  /\ CanStart(r, serial)
  /\ LET ids == FindByEmail(users, email)
     IN \E i \in (IF ids = {} THEN {0} ELSE ids) :
          Done(r, "login", email, Absent, password, "", i,
               LoginResp(users, ids, i, password))
  /\ UNCHANGED <<users, now, accepted>>
  /\ UNCHANGED <<lastGoogle, nodeEnv, client, gateVars, noteVars>>

----------------------------------------------------------------------------
(* POST /api/auth/google, with an assertion the provider verified *)

GoogleFind(r, serial, sub, email) ==
  /\ CanStart(r, serial)
  /\ LET ids == FindForGoogle(users, email, sub)
     IN IF ids = {}
          THEN Await(r, "google_create", "google", email, Absent, "", sub, 0)
          ELSE \E i \in ids :
                 IF users[i].googleId = NoGoogleId
                   THEN Await(r, "google_link", "google", email, Absent, "", sub, i)
                   ELSE Done(r, "google", email, Absent, "", sub, i,
                             Resp(200, "Login successful",
                                  generateToken(i, users[i]), "none"))
  /\ UNCHANGED <<users, now, accepted>>
  /\ UNCHANGED <<lastGoogle, nodeEnv, client, gateVars, noteVars>>

\* What googleClient.verifyIdToken and ticket.getPayload() make of a token
\* that does not get to the lookup: the provider rejects it (the promise
\* is rejected), the ticket has no payload, or the payload lacks one of
\* the fields the handler requires.
RejectedAssertions ==
  {"invalid", "no-payload", "no-email", "no-given-name", "no-family-name"}

\* the answer of the handler to such a token: a rejected verifyIdToken
\* lands in the catch of the handler
GoogleRejectResp(assertion) ==
  IF assertion = "invalid"
    THEN Resp(500, "Server error during Google authentication", NoToken, "none")
  ELSE IF assertion = "no-payload"
    THEN Resp(401, "Invalid Google token", NoToken, "none")
  ELSE Resp(400, "Incomplete Google profile information", NoToken, "none")

\* POST /api/auth/google with such a token; sub records what became of it
GoogleReject(r, serial, assertion) ==
  /\ CanStart(r, serial)
  /\ Done(r, "google", <<>>, Absent, "", assertion, 0, GoogleRejectResp(assertion))
  /\ UNCHANGED <<users, now, accepted>>
  /\ UNCHANGED <<lastGoogle, nodeEnv, client, gateVars, noteVars>>

\* mutant: the link stamps the googleId and leaves the verified flag
SaveLinked_NotVerified(coll, i, googleId) ==
  [coll EXCEPT ![i].googleId = googleId]

\* user.save() of the found document: $set googleId, isEmailVerified
SaveLinked(coll, i, googleId) ==
  [coll EXCEPT ![i] = PreSave([@ EXCEPT !.googleId = googleId,
                                        !.isEmailVerified = TRUE],
                              {"googleId", "isEmailVerified"})]

\* the message of the 200 answer: the mock branch has its own
GoogleMessage(kind) ==
  IF kind = "mock" THEN "Development Google login successful"
                   ELSE "Login successful"

GoogleLink(r) ==
  /\ Delivered
  /\ req[r].pc = "google_link"
  /\ users' = SaveLinked(users, req[r].doc, req[r].sub)
  /\ Done(r, req[r].kind, req[r].email, Absent, "", req[r].sub, req[r].doc,
          Resp(200, GoogleMessage(req[r].kind),
               generateToken(req[r].doc, users[req[r].doc]), "none"))
  /\ UNCHANGED <<now, accepted>>
  /\ UNCHANGED <<lastGoogle, nodeEnv, client, gateVars, noteVars>>

GoogleCreate(r) ==
  /\ Delivered
  /\ req[r].pc = "google_create"
  /\ LET user == NewUser(req[r].email, "", req[r].sub, TRUE, Absent, Absent)
     IN IF DuplicateKey(users, user)
          THEN /\ Done(r, req[r].kind, req[r].email, Absent, "", req[r].sub, 0,
                       Resp(500, "Server error during Google authentication",
                            NoToken, "none"))
               /\ UNCHANGED users
          ELSE /\ Len(users) < MaxUsers
               /\ users' = Append(users, user)
               /\ Done(r, req[r].kind, req[r].email, Absent, "", req[r].sub,
                       Len(users) + 1,
                       \* user.isNew is false once save() has returned
                       Resp(200, GoogleMessage(req[r].kind),
                            generateToken(Len(users) + 1, user), "none"))
  /\ UNCHANGED <<now, accepted>>
  /\ UNCHANGED <<lastGoogle, nodeEnv, client, gateVars, noteVars>>

----------------------------------------------------------------------------
(* POST /api/auth/google with the mock token of the development button *)

MockToken == "mock_google_token_for_development"
MockSub == "dev_google_id_123"
MockEmail == <<"test", "@", "gmail.com">>

\* mutant: the mock branch is taken in every deployment but production
MockEnabled_NotProduction(googleToken, env) ==
  googleToken = MockToken /\ env # "production"

\* the condition of the mock branch
MockEnabled(googleToken, env) ==
  googleToken = MockToken /\ env = "development"

\* the request of the development button.  In the mock branch the profile
\* is the fixed mockPayload and the lookup, the link and the creation are
\* those of the federated login; otherwise the string goes to
\* verifyIdToken, which rejects what is not a signed token of the provider
GoogleMock(r, serial) ==
  /\ CanStart(r, serial)
  /\ IF MockEnabled(MockToken, nodeEnv)
       THEN LET ids == FindForGoogle(users, MockEmail, MockSub)
            IN IF ids = {}
                 THEN Await(r, "google_create", "mock", MockEmail, Absent, "",
                            MockSub, 0)
                 ELSE \E i \in ids :
                        IF users[i].googleId = NoGoogleId
                          THEN Await(r, "google_link", "mock", MockEmail, Absent,
                                     "", MockSub, i)
                          ELSE Done(r, "mock", MockEmail, Absent, "", MockSub, i,
                                    Resp(200, GoogleMessage("mock"),
                                         generateToken(i, users[i]), "none"))
       ELSE Done(r, "mock", <<>>, Absent, "", MockToken, 0,
                 GoogleRejectResp("invalid"))
  /\ UNCHANGED <<users, now, accepted>>
  /\ UNCHANGED <<lastGoogle, nodeEnv, client, gateVars, noteVars>>

----------------------------------------------------------------------------
(* POST /api/auth/resend-otp *)

ResendFind(r, serial, email) ==
  /\ CanStart(r, serial)
  /\ LET ids == FindForResend(users, email)
     IN IF ids = {}
          THEN Done(r, "resend", email, Absent, "", "", 0,
                    Resp(404, "User not found or already verified", NoToken, "none"))
          ELSE \E i \in ids :
                 Await(r, "resend_save", "resend", email, Absent, "", "", i)
  /\ UNCHANGED <<users, now, accepted>>
  /\ UNCHANGED <<lastGoogle, nodeEnv, client, gateVars, noteVars>>

\* mutant: the save extends the expiry and leaves the code as it was
SaveOtp_ExpiryOnly(coll, i, otp, otpExpiry) ==
  [coll EXCEPT ![i].otpExpiry = otpExpiry]

\* mutant: the save writes the whole loaded document back, the verified
\* flag it was found with included
SaveOtp_WholeDocument(coll, i, otp, otpExpiry) ==
  [coll EXCEPT ![i] = [@ EXCEPT !.otp = otp, !.otpExpiry = otpExpiry,
                                !.isEmailVerified = FALSE]]

\* mutant: the save writes the code and leaves the expiry as it was
SaveOtp_CodeOnly(coll, i, otp, otpExpiry) ==
  [coll EXCEPT ![i].otp = otp]

\* user.save() of the found document: $set otp, otpExpiry
SaveOtp(coll, i, otp, otpExpiry) ==
  [coll EXCEPT ![i] = PreSave([@ EXCEPT !.otp = otp, !.otpExpiry = otpExpiry],
                              {"otp", "otpExpiry"})]

\* mutant: a failure of sendOTPEmail is swallowed, as in signup
ResendResp_MailFailureSwallowed(mailOk) ==
  Resp(200, "OTP sent successfully", NoToken, IF mailOk THEN "sent" ELSE "failed")

\* the answer after user.save(): 200 when sendOTPEmail resolved, 500 when
\* it rejected
ResendResp(mailOk) ==
  IF mailOk
    THEN Resp(200, "OTP sent successfully", NoToken, "sent")
    ELSE Resp(500, "Failed to send OTP email", NoToken, "failed")

ResendSave(r) ==
  /\ Delivered
  /\ req[r].pc = "resend_save"
  /\ \E k \in 0..(RandSteps - 1), mailOk \in BOOLEAN :
       LET otp == generateOTP(k)
           otpExpiry == now + OtpTtl
       IN /\ users' = SaveOtp(users, req[r].doc, otp, otpExpiry)
          /\ Done(r, "resend", req[r].email, otp, "", "", req[r].doc,
                  ResendResp(mailOk))
  /\ UNCHANGED <<now, accepted>>
  /\ UNCHANGED <<lastGoogle, nodeEnv, client, gateVars, noteVars>>

----------------------------------------------------------------------------
(* The environment: time passes, a response is delivered and its slot freed *)

Tick ==
  /\ Delivered
  /\ now + TickStep <= MaxTime
  /\ now' = now + TickStep
  /\ UNCHANGED <<users, req, accepted>>
  /\ UNCHANGED <<lastGoogle, nodeEnv, client, gateVars, noteVars>>

Finish(r, serial) ==
  /\ req[r].pc = "done"
  /\ req' = [req EXCEPT ![r] = IdleReq]
  /\ lastGoogle' = IF serial /\ req[r].kind = "google" /\ req[r].resp.status = 200
                      THEN [sub |-> req[r].sub, email |-> req[r].email,
                            doc |-> req[r].doc]
                      ELSE NoGoogle
  /\ UNCHANGED <<users, now, accepted>>
  /\ UNCHANGED <<nodeEnv, client, gateVars, noteVars>>

----------------------------------------------------------------------------
(* The data of the responses *)

NoData == [k \in {} |-> ""]

\* mutant: the view of the account copies the pending code as well
UserView_WithOtp(coll, i) ==
  [id |-> i, email |-> coll[i].email,
   isEmailVerified |-> coll[i].isEmailVerified, otp |-> coll[i].otp]

\* data.user of the 200 answers of verify-otp, login and the federated
\* login (the names and the picture are not modelled)
UserView(coll, i) ==
  [id |-> i, email |-> coll[i].email,
   isEmailVerified |-> coll[i].isEmailVerified]

\* the data of the answer that slot r holds: signup echoes the request,
\* verify-otp, login and the federated login give the token and the view
\* of the account, resend-otp and every error give a message only
ResponseData(r) ==
  IF req[r].pc # "done" THEN NoData
  ELSE IF req[r].kind = "signup" /\ req[r].resp.status = 201
    THEN [email |-> req[r].email, isEmailVerified |-> FALSE]
  ELSE IF req[r].kind \in {"verify", "login", "google"} /\ req[r].resp.status = 200
    THEN [token |-> req[r].resp.token, user |-> UserView(users, req[r].doc)]
  ELSE NoData

----------------------------------------------------------------------------
(* The client keeps the token of a response (AuthContext login) *)

KeepToken(r) ==
  /\ req[r].pc = "done"
  /\ req[r].resp.token # NoToken
  /\ session' = req[r].resp.token
  /\ req' = [req EXCEPT ![r] = IdleReq]
  /\ UNCHANGED <<users, now, accepted, lastGoogle, nodeEnv, client, gate, deleted, noteVars>>

----------------------------------------------------------------------------
(* authenticate, in front of GET /api/auth/me *)

GateDone(header, status, message) ==
  gate' = [pc |-> "done", header |-> header, userId |-> 0, status |-> status,
           message |-> message, next |-> FALSE, user |-> NoUser, body |-> NoBody,
           storeFailed |-> FALSE]

\* mutant: the lookup still finds a document that was removed
FindById_Removed(coll, gone, id) == {i \in DOMAIN coll : i = id}

\* User.findById(decoded.userId)
FindById(coll, gone, id) == {i \in DOMAIN coll \ gone : i = id}

\* .select('-password -otp -otpExpiry')
SelectPublic(coll, i) ==
  [id |-> i, email |-> coll[i].email,
   isEmailVerified |-> coll[i].isEmailVerified, googleId |-> coll[i].googleId]

\* the handler of GET /api/auth/me: data.user of its 200 response
Me(user) ==
  [id |-> user.id, email |-> user.email, isEmailVerified |-> user.isEmailVerified]

\* the header check and verifyToken, up to the await on the store
AuthenticateVerify(h) ==
  /\ gate.pc = "idle"
  /\ IF ~h.present \/ h.prefix # "Bearer "
       THEN GateDone(h, 401, "Access denied. No token provided.")
       ELSE LET decoded == verifyToken(h.rest, now)
            IN IF ~decoded.ok
                 THEN GateDone(h, 401, "Token is not valid.")
                 ELSE gate' = [IdleGate EXCEPT !.pc = "gate_find", !.header = h,
                                               !.userId = decoded.userId]
  /\ UNCHANGED <<users, req, now, accepted, lastGoogle, nodeEnv, client, session, deleted, noteVars>>

\* mutant: the gate records on the account that it was seen
AuthenticateFind_Writes ==
  /\ gate.pc = "gate_find"
  /\ LET ids == FindById(users, deleted, gate.userId)
     IN IF ids = {}
          THEN GateDone(gate.header, 401, "Token is not valid - user not found.")
               /\ UNCHANGED users
          ELSE \E i \in ids :
                 /\ gate' = [gate EXCEPT !.pc = "done", !.status = 200,
                                         !.next = TRUE,
                                         !.user = SelectPublic(users, i),
                                         !.body = Me(SelectPublic(users, i))]
                 /\ users' = [users EXCEPT ![i].googleId = "seen"]
  /\ UNCHANGED <<req, now, accepted, lastGoogle, nodeEnv, client, session, deleted, noteVars>>

\* the store answers: 401 without the account, else req.user = user; next()
AuthenticateFind ==
  /\ gate.pc = "gate_find"
  /\ LET ids == FindById(users, deleted, gate.userId)
     IN IF ids = {}
          THEN GateDone(gate.header, 401, "Token is not valid - user not found.")
          ELSE \E i \in ids :
                 gate' = [gate EXCEPT !.pc = "done", !.status = 200,
                                      !.next = TRUE,
                                      !.user = SelectPublic(users, i),
                                      !.body = Me(SelectPublic(users, i))]
  /\ UNCHANGED <<users, req, now, accepted, lastGoogle, nodeEnv, client, session, deleted, noteVars>>

\* User.findById rejects (the store is unreachable): the rejection is
\* thrown inside the inner try, whose catch answers 401
AuthenticateFindFails ==
  /\ gate.pc = "gate_find"
  /\ gate' = [IdleGate EXCEPT !.pc = "done", !.header = gate.header,
                              !.status = 401, !.message = "Token is not valid.",
                              !.storeFailed = TRUE]
  /\ UNCHANGED <<users, req, now, accepted, lastGoogle, nodeEnv, client, session, deleted, noteVars>>

GateFinish ==
  /\ gate.pc = "done"
  /\ gate' = IdleGate
  /\ UNCHANGED <<users, req, now, accepted, lastGoogle, nodeEnv, client, session, deleted, noteVars>>

\* an account is removed from the collection (nothing in the routes does it)
DeleteUser(i) ==
  /\ i \in DOMAIN users \ deleted
  /\ deleted' = deleted \cup {i}
  /\ UNCHANGED <<users, req, now, accepted, lastGoogle, nodeEnv, client, session, gate, noteVars>>

\* the instants around the expiry of the tokens issued up to MaxTime
LateTimes ==
  {JwtExpire * 1000 - TickStep, JwtExpire * 1000, JwtExpire * 1000 + TickStep}

\* time passes up to one of them
Elapse(t) ==
  /\ t > now
  /\ now' = t
  /\ UNCHANGED <<users, req, accepted, lastGoogle, nodeEnv, client, gateVars, noteVars>>

----------------------------------------------------------------------------
(* The notes router, behind authenticate: user is req.user._id *)

\* a response of the notes router is delivered before any other step
NoteDelivered == \A q \in Reqs : nreq[q].pc # "done"

NoteStart(r) == NoteDelivered /\ nreq[r].pc = "idle"

NoteDone(r, op, user, id, body, status, message, data, total, pinned) ==
  nreq' = [nreq EXCEPT ![r] =
             [pc |-> "done", op |-> op, user |-> user, id |-> id, body |-> body,
              loaded |-> FALSE, status |-> status, message |-> message,
              data |-> data, total |-> total, pinned |-> pinned,
              page |-> <<>>]]

\* a note as a response carries it
View(coll, i) ==
  [id |-> i, userId |-> coll[i].userId, title |-> coll[i].title,
   isPinned |-> coll[i].isPinned]

\* Note.find({ userId })
FindNotes(coll, user) ==
  {i \in DOMAIN coll : ~coll[i].removed /\ coll[i].userId = user}

\* mutant: the filter leaves out userId
FindNote_AnyOwner(coll, id, user) ==
  {i \in DOMAIN coll : ~coll[i].removed /\ i = id}

\* Note.findOne({ _id: id, userId })
FindNote(coll, id, user) ==
  {i \in DOMAIN coll : ~coll[i].removed /\ i = id /\ coll[i].userId = user}

\* mutant: the schemas let a userId key through
BodyError_AllowsUserId(body) == FALSE

\* Joi validate of createNoteSchema / updateNoteSchema: a key the schema
\* does not name is an error
BodyError(body) == body.userId # Absent

\* the update document { ...value, updatedAt: new Date() }: every key of
\* the validated body is set
UpdateFields(note, value) ==
  [note EXCEPT !.title = value.title,
               !.userId = IF value.userId = Absent THEN @ ELSE value.userId,
               !.updatedAt = now]

\* the query parameters sortBy and order; anything else than the values
\* the handler names falls to createdAt and to ascending
SortBys == {"createdAt", "title", "updatedAt", "other"}
Orders == {"desc", "asc", "other"}

\* the order of the titles as strings
TitleRank(title) == IF title = "t1" THEN 1 ELSE 2

\* the field sortBy selects; a note is created after those with a
\* smaller _id
SortKey(coll, i, sortBy) ==
  IF sortBy = "title" THEN TitleRank(coll[i].title)
  ELSE IF sortBy = "updatedAt" THEN coll[i].updatedAt
  ELSE i

\* mutant: the sort object is { ...sortObj } without isPinned
Precedes_NoPinFirst(coll, i, j, sortBy, order) ==
  IF order = "desc"
    THEN SortKey(coll, i, sortBy) > SortKey(coll, j, sortBy)
    ELSE SortKey(coll, i, sortBy) < SortKey(coll, j, sortBy)

\* note i sorts strictly before note j under { isPinned: -1, ...sortObj }
Precedes(coll, i, j, sortBy, order) ==
  \/ coll[i].isPinned /\ ~coll[j].isPinned
  \/ /\ coll[i].isPinned = coll[j].isPinned
     /\ IF order = "desc"
          THEN SortKey(coll, i, sortBy) > SortKey(coll, j, sortBy)
          ELSE SortKey(coll, i, sortBy) < SortKey(coll, j, sortBy)

\* .sort(sortObj): the orders of ids the store may answer with; notes that
\* are equal under the sort come in either order
SortedLists(coll, ids, sortBy, order) ==
  {s \in [1..Cardinality(ids) -> ids] :
     /\ \A a, b \in DOMAIN s : a # b => s[a] # s[b]
     /\ \A a, b \in DOMAIN s : a < b => ~Precedes(coll, s[b], s[a], sortBy, order)}

\* .skip((page - 1) * limit).limit(limit)
Slice(list, page, limit) ==
  SubSeq(list, (page - 1) * limit + 1,
         IF page * limit < Len(list) THEN page * limit ELSE Len(list))

\* GET /api/notes with the default page and limit
ListNotes(r, user, sortBy, order) ==
  /\ NoteStart(r)
  /\ LET ids == FindNotes(notes, user)
     IN \E s \in SortedLists(notes, ids, sortBy, order) :
          nreq' = [nreq EXCEPT ![r] =
                     [IdleNote EXCEPT !.pc = "done", !.op = "list",
                                      !.user = user, !.status = 200,
                                      !.data = {View(notes, i) : i \in ids},
                                      !.total = Cardinality(ids),
                                      !.page = Slice([k \in DOMAIN s |-> View(notes, s[k])],
                                                     1, 20)]]
  /\ UNCHANGED <<users, req, now, accepted, lastGoogle, nodeEnv, client, gateVars, notes,
                 lastPin>>

\* GET /api/notes/:id
GetNote(r, user, id) ==
  /\ NoteStart(r)
  /\ IF id = InvalidId
       THEN NoteDone(r, "get", user, id, NoNoteBody, 400, "Invalid note ID", {}, 0, 0)
     ELSE IF FindNote(notes, id, user) = {}
       THEN NoteDone(r, "get", user, id, NoNoteBody, 404, "Note not found", {}, 0, 0)
     ELSE NoteDone(r, "get", user, id, NoNoteBody, 200, "",
                   {View(notes, i) : i \in FindNote(notes, id, user)}, 0, 0)
  /\ UNCHANGED <<users, req, now, accepted, lastGoogle, nodeEnv, client, gateVars, notes,
                 lastPin>>

\* POST /api/notes: new Note({ ...value, userId }); note.save()
CreateNote(r, user, body) ==
  /\ NoteStart(r)
  /\ IF BodyError(body)
       THEN /\ NoteDone(r, "create", user, 0, body, 400,
                        "\"userId\" is not allowed", {}, 0, 0)
            /\ UNCHANGED notes
       ELSE /\ Len(notes) < MaxNotes
            /\ notes' = Append(notes, [userId |-> user, title |-> body.title,
                                        isPinned |-> FALSE, removed |-> FALSE,
                                        updatedAt |-> now])
            /\ NoteDone(r, "create", user, Len(notes) + 1, body, 201,
                        "Note created successfully",
                        {View(notes', Len(notes) + 1)}, 0, 0)
  /\ lastPin' = NoPin
  /\ UNCHANGED <<users, req, now, accepted, lastGoogle, nodeEnv, client, gateVars>>

\* PUT /api/notes/:id: Note.findOneAndUpdate({ _id: id, userId }, { ...value })
UpdateNote(r, user, id, body) ==
  /\ NoteStart(r)
  /\ IF BodyError(body)
       THEN /\ NoteDone(r, "update", user, id, body, 400,
                        "\"userId\" is not allowed", {}, 0, 0)
            /\ UNCHANGED notes
     ELSE IF id = InvalidId
       THEN /\ NoteDone(r, "update", user, id, body, 400, "Invalid note ID", {}, 0, 0)
            /\ UNCHANGED notes
     ELSE IF FindNote(notes, id, user) = {}
       THEN /\ NoteDone(r, "update", user, id, body, 404, "Note not found", {}, 0, 0)
            /\ UNCHANGED notes
     ELSE /\ notes' = [notes EXCEPT ![id] = UpdateFields(@, body)]
          /\ NoteDone(r, "update", user, id, body, 200, "Note updated successfully",
                      {View(notes', id)}, 0, 0)
  /\ lastPin' = NoPin
  /\ UNCHANGED <<users, req, now, accepted, lastGoogle, nodeEnv, client, gateVars>>

\* DELETE /api/notes/:id: Note.findOneAndDelete({ _id: id, userId })
DeleteNote(r, user, id) ==
  /\ NoteStart(r)
  /\ IF id = InvalidId
       THEN /\ NoteDone(r, "delete", user, id, NoNoteBody, 400, "Invalid note ID", {}, 0, 0)
            /\ UNCHANGED notes
     ELSE IF FindNote(notes, id, user) = {}
       THEN /\ NoteDone(r, "delete", user, id, NoNoteBody, 404, "Note not found", {}, 0, 0)
            /\ UNCHANGED notes
     ELSE /\ notes' = [notes EXCEPT ![id] = RemovedNote]
          /\ NoteDone(r, "delete", user, id, NoNoteBody, 200,
                      "Note deleted successfully", {}, 0, 0)
  /\ lastPin' = NoPin
  /\ UNCHANGED <<users, req, now, accepted, lastGoogle, nodeEnv, client, gateVars>>

\* PATCH /api/notes/:id/pin, up to the await on note.save()
PinFind(r, user, id) ==
  /\ NoteStart(r)
  /\ IF id = InvalidId
       THEN NoteDone(r, "pin", user, id, NoNoteBody, 400, "Invalid note ID", {}, 0, 0)
     ELSE IF FindNote(notes, id, user) = {}
       THEN NoteDone(r, "pin", user, id, NoNoteBody, 404, "Note not found", {}, 0, 0)
     ELSE nreq' = [nreq EXCEPT ![r] =
                     [IdleNote EXCEPT !.pc = "pin_save", !.op = "pin",
                                      !.user = user, !.id = id,
                                      !.loaded = notes[id].isPinned]]
  /\ UNCHANGED <<users, req, now, accepted, lastGoogle, nodeEnv, client, gateVars, notes,
                 lastPin>>

\* note.isPinned = !note.isPinned; note.save() writes the value computed
\* from the loaded document, and fails when the document is gone
\* mutant: the handler pins, whatever the loaded document says
TogglePin_AlwaysPins(note, loaded) ==
  [note EXCEPT !.isPinned = TRUE, !.updatedAt = now]

\* note.isPinned = !note.isPinned on the loaded document: the save sets
\* the one modified path, and updatedAt (timestamps: true)
TogglePin(note, loaded) == [note EXCEPT !.isPinned = ~loaded, !.updatedAt = now]

PinSave(r, serial) ==
  /\ NoteDelivered
  /\ nreq[r].pc = "pin_save"
  /\ IF notes[nreq[r].id].removed
       THEN /\ NoteDone(r, "pin", nreq[r].user, nreq[r].id, NoNoteBody, 500,
                        "Server error while toggling pin status", {}, 0, 0)
            /\ UNCHANGED notes
            /\ lastPin' = NoPin
       ELSE /\ notes' = [notes EXCEPT ![nreq[r].id] = TogglePin(@, nreq[r].loaded)]
            /\ lastPin' = IF serial
                             THEN [id |-> nreq[r].id,
                                   before |-> notes[nreq[r].id].isPinned]
                             ELSE NoPin
            /\ NoteDone(r, "pin", nreq[r].user, nreq[r].id, NoNoteBody, 200,
                        IF ~nreq[r].loaded THEN "Note pinned successfully"
                                           ELSE "Note unpinned successfully",
                        {View(notes', nreq[r].id)}, 0, 0)
  /\ UNCHANGED <<users, req, now, accepted, lastGoogle, nodeEnv, client, gateVars>>

\* GET /api/notes/stats/summary
NoteStats(r, user) ==
  /\ NoteStart(r)
  /\ LET ids == FindNotes(notes, user)
     IN NoteDone(r, "stats", user, 0, NoNoteBody, 200, "", {},
                 Cardinality(ids),
                 Cardinality({i \in ids : notes[i].isPinned}))
  /\ UNCHANGED <<users, req, now, accepted, lastGoogle, nodeEnv, client, gateVars, notes,
                 lastPin>>

NoteFinish(r) ==
  /\ nreq[r].pc = "done"
  /\ nreq' = [nreq EXCEPT ![r] = IdleNote]
  /\ UNCHANGED <<users, req, now, accepted, lastGoogle, nodeEnv, client, gateVars, notes,
                 lastPin>>

----------------------------------------------------------------------------
(* Specifications *)

\* requests interleave at their awaits
Next ==
  \/ \E r \in Reqs, b \in SignupBodies : SignupValidate(r, FALSE, b)
  \/ \E r \in Reqs, e \in Emails, p \in SignupPasswords : SignupFind(r, FALSE, e, p)
  \/ \E r \in Reqs : SignupSave(r)
  \/ \E r \in Reqs, e \in Emails, o \in OtpInputs : VerifyFind(r, FALSE, e, o)
  \/ \E r \in Reqs : VerifySave(r, FALSE)
  \/ \E r \in Reqs, e \in Emails, p \in Passwords : Login(r, FALSE, e, p)
  \/ \E r \in Reqs, s \in SubsConc, e \in Emails : GoogleFind(r, FALSE, s, e)
  \/ \E r \in Reqs, a \in RejectedAssertions : GoogleReject(r, FALSE, a)
  \/ \E r \in Reqs : GoogleLink(r)
  \/ \E r \in Reqs : GoogleCreate(r)
  \/ \E r \in Reqs, e \in Emails : ResendFind(r, FALSE, e)
  \/ \E r \in Reqs : ResendSave(r)
  \/ Tick
  \/ \E r \in Reqs : Finish(r, FALSE)

\* requests are executed one after another
NextSeq ==
  \/ \E r \in Reqs, b \in SignupBodies : SignupValidate(r, TRUE, b)
  \/ \E r \in Reqs, e \in Emails, p \in SignupPasswords : SignupFind(r, TRUE, e, p)
  \/ \E r \in Reqs : SignupSave(r)
  \/ \E r \in Reqs, e \in Emails, o \in OtpInputs : VerifyFind(r, TRUE, e, o)
  \/ \E r \in Reqs : VerifySave(r, TRUE)
  \/ \E r \in Reqs, e \in Emails, p \in Passwords : Login(r, TRUE, e, p)
  \/ \E r \in Reqs, s \in Subs, e \in Emails : GoogleFind(r, TRUE, s, e)
  \/ \E r \in Reqs, a \in RejectedAssertions : GoogleReject(r, TRUE, a)
  \/ \E r \in Reqs : GoogleLink(r)
  \/ \E r \in Reqs : GoogleCreate(r)
  \/ \E r \in Reqs, e \in Emails : ResendFind(r, TRUE, e)
  \/ \E r \in Reqs : ResendSave(r)
  \/ Tick
  \/ \E r \in Reqs : Finish(r, TRUE)

Spec == Init /\ [][Next]_vars

SpecSeq == Init /\ [][NextSeq]_vars

MockEmails == {MockEmail, <<"a", "@", "x">>}

\* a deployment with any NODE_ENV: signup, verify-otp, login, the
\* federated login and the request of the development button, one after
\* another
NextMock ==
  \/ \E r \in Reqs, e \in MockEmails, p \in SignupPasswords : SignupFind(r, TRUE, e, p)
  \/ \E r \in Reqs : SignupSave(r)
  \/ \E r \in Reqs, e \in MockEmails, o \in OtpInputs : VerifyFind(r, TRUE, e, o)
  \/ \E r \in Reqs : VerifySave(r, TRUE)
  \/ \E r \in Reqs, e \in MockEmails, p \in SignupPasswords : Login(r, TRUE, e, p)
  \/ \E r \in Reqs, e \in MockEmails : GoogleFind(r, TRUE, "g1", e)
  \/ \E r \in Reqs : GoogleMock(r, TRUE)
  \/ \E r \in Reqs : GoogleLink(r)
  \/ \E r \in Reqs : GoogleCreate(r)
  \/ Tick
  \/ \E r \in Reqs : Finish(r, TRUE)

SpecMock == InitEnv /\ [][NextMock]_vars

\* the addresses used with the gate
GateEmails == { <<"a", "@", "x">>, <<"b", "@", "x">> }

\* the auth routes run while no account has been removed and the answer of
\* the gate has been delivered
Live == deleted = {} /\ gate.pc # "done"

\* signup, verify-otp and login one after another; the client keeps the
\* tokens and calls GET /api/auth/me at any moment
NextGate ==
  \/ \E r \in Reqs, e \in GateEmails, p \in SignupPasswords :
       Live /\ SignupFind(r, TRUE, e, p)
  \/ \E r \in Reqs : Live /\ SignupSave(r)
  \/ \E r \in Reqs, e \in GateEmails, o \in OtpInputs :
       Live /\ VerifyFind(r, TRUE, e, o)
  \/ \E r \in Reqs : Live /\ VerifySave(r, FALSE)
  \/ \E r \in Reqs, e \in GateEmails, p \in SignupPasswords :
       Live /\ Login(r, TRUE, e, p)
  \/ \E r \in Reqs : gate.pc # "done" /\ Finish(r, FALSE)
  \/ \E r \in Reqs : gate.pc # "done" /\ KeepToken(r)
  \/ \E h \in Headers(session) : Delivered /\ AuthenticateVerify(h)
  \/ Delivered /\ AuthenticateFind
  \/ GateFinish
  \/ \E i \in DOMAIN users : Delivered /\ gate.pc # "done" /\ DeleteUser(i)
  \/ gate.pc # "done" /\ Tick
  \/ \E t \in LateTimes : Delivered /\ gate.pc # "done" /\ Elapse(t)

SpecGate == Init /\ [][NextGate]_vars

\* the same, with a store that may fail while the gate looks the account up
NextGateFault ==
  \/ NextGate
  \/ Delivered /\ AuthenticateFindFails

SpecGateFault == Init /\ [][NextGateFault]_vars

\* the notes router, its requests interleaved at their awaits
NextNotes ==
  \/ \E r \in Reqs, u \in NoteUsers, sb \in SortBys, o \in Orders :
       ListNotes(r, u, sb, o)
  \/ \E r \in Reqs, u \in NoteUsers, id \in 0..MaxNotes : GetNote(r, u, id)
  \/ \E r \in Reqs, u \in NoteUsers, b \in Bodies : CreateNote(r, u, b)
  \/ \E r \in Reqs, u \in NoteUsers, id \in 0..MaxNotes, b \in Bodies :
       UpdateNote(r, u, id, b)
  \/ \E r \in Reqs, u \in NoteUsers, id \in 0..MaxNotes : DeleteNote(r, u, id)
  \/ \E r \in Reqs, u \in NoteUsers, id \in 0..MaxNotes : PinFind(r, u, id)
  \/ \E r \in Reqs : PinSave(r, FALSE)
  \/ \E r \in Reqs, u \in NoteUsers : NoteStats(r, u)
  \/ \E r \in Reqs : NoteFinish(r)

SpecNotes == Init /\ [][NextNotes]_vars

\* no request to the notes router is in flight
Alone == \A q \in Reqs : nreq[q].pc = "idle"

\* the notes router, one request after another
NextNotesSeq ==
  \/ \E r \in Reqs, u \in NoteUsers, sb \in SortBys, o \in Orders :
       Alone /\ ListNotes(r, u, sb, o)
  \/ \E r \in Reqs, u \in NoteUsers, id \in 0..MaxNotes : Alone /\ GetNote(r, u, id)
  \/ \E r \in Reqs, u \in NoteUsers, b \in Bodies : Alone /\ CreateNote(r, u, b)
  \/ \E r \in Reqs, u \in NoteUsers, id \in 0..MaxNotes, b \in Bodies :
       Alone /\ UpdateNote(r, u, id, b)
  \/ \E r \in Reqs, u \in NoteUsers, id \in 0..MaxNotes : Alone /\ DeleteNote(r, u, id)
  \/ \E r \in Reqs, u \in NoteUsers, id \in 0..MaxNotes : Alone /\ PinFind(r, u, id)
  \/ \E r \in Reqs : PinSave(r, TRUE)
  \/ \E r \in Reqs, u \in NoteUsers : Alone /\ NoteStats(r, u)
  \/ \E r \in Reqs : NoteFinish(r)
  \/ Tick

SpecNotesSeq == Init /\ [][NextNotesSeq]_vars

----------------------------------------------------------------------------
(* The web client: startup check, login and logout of AuthProvider *)

\* the client opens the page: AuthProvider is mounted over what localStorage
\* holds; the backend is not part of this specification
InitClient ==
  /\ client \in {Mounted(t, u) : t \in ClientTokens \cup {"none"},
                                u \in ClientUsers \cup {"none"}}
  /\ nodeEnv = "production"
  /\ users = <<>>
  /\ req = [r \in Reqs |-> IdleReq]
  /\ now = 0
  /\ accepted = {}
  /\ lastGoogle = NoGoogle
  /\ session = NoToken
  /\ gate = IdleGate
  /\ deleted = {}
  /\ notes = <<>>
  /\ nreq = [r \in Reqs |-> IdleNote]
  /\ lastPin = NoPin

serverVars ==
  <<users, req, now, accepted, lastGoogle, session, gate, deleted, notes, nreq,
    lastPin, nodeEnv>>

\* initializeAuth up to its await: reads the stored token and user; with
\* both it calls AuthService.getCurrentUser(), otherwise it goes straight
\* to setIsLoading(false)
InitializeAuth ==
  /\ client.pc = "mount"
  /\ IF getStoredToken(client) # "none" /\ getStoredUser(client) # "none"
     THEN client' = [client EXCEPT !.pc = "awaiting",
                                   !.sent = getStoredToken(client)]
     ELSE client' = [client EXCEPT !.pc = "done", !.answer = "skipped",
                                   !.isLoading = FALSE]
  /\ UNCHANGED serverVars

\* initializeAuth after its await: the answer of GET /auth/me for the
\* token that was sent; setUser on success with data, AuthService.logout()
\* otherwise, then setIsLoading(false)
GetCurrentUserAnswers(outcome) ==
  /\ client.pc = "awaiting"
  /\ client' =
       IF outcome = "ok"
       THEN [client EXCEPT !.user = Holder(client.sent), !.answer = "ok",
                           !.pc = "done", !.isLoading = FALSE]
       ELSE [Rejected(client) EXCEPT !.answer = "rejected",
                                     !.pc = "done", !.isLoading = FALSE]
  /\ UNCHANGED serverVars

\* AuthService.login / verifyOTP / googleAuth answered with success and
\* data: the token and the user are written to localStorage, and the form
\* goes on with the response
AuthServiceLogin(t) ==
  /\ client.pc # "off"
  /\ client.form = "none"
  /\ client' = [client EXCEPT !.token = t, !.stored = Holder(t),
                              !.form = t, !.touched = TRUE]
  /\ UNCHANGED serverVars

\* login(userData, token) of AuthProvider, called by the form with the
\* response: writes localStorage again and setUser(userData)
login ==
  /\ client.pc # "off"
  /\ client.form # "none"
  /\ client' = [client EXCEPT !.token = client.form,
                              !.stored = Holder(client.form),
                              !.user = Holder(client.form),
                              !.form = "none", !.touched = TRUE]
  /\ UNCHANGED serverVars

\* logout() of AuthProvider: AuthService.logout() and setUser(null)
logout ==
  /\ client.pc # "off"
  /\ client' = [AuthServiceLogout(client) EXCEPT !.user = "none",
                                                 !.touched = TRUE]
  /\ UNCHANGED serverVars

\* updateUser(userData) of AuthProvider, called for the user who is
\* signed in: writes 'user' to localStorage and setUser(userData)
updateUser(u) ==
  /\ client.pc # "off"
  /\ client.user # "none"
  /\ client' = [client EXCEPT !.stored = u, !.user = u]
  /\ UNCHANGED serverVars

NextClient ==
  \/ InitializeAuth
  \/ \E outcome \in MeOutcomes : GetCurrentUserAnswers(outcome)
  \/ \E t \in ClientTokens : AuthServiceLogin(t)
  \/ login
  \/ logout
  \/ \E u \in ClientUsers : updateUser(u)

SpecClient == InitClient /\ [][NextClient]_vars

\* the startup check is an effect that runs once mounted, and the promise
\* of its request settles
SpecClientLive ==
  /\ SpecClient
  /\ WF_vars(InitializeAuth)
  /\ WF_vars(\E outcome \in MeOutcomes : GetCurrentUserAnswers(outcome))


----------------------------------------------------------------------------
(* Vocabulary of the properties *)

\* request r is answered in this step
Completes(r) == req[r].pc # "done" /\ req'[r].pc = "done"

\* request r enters the server in this step
Starts(r) == req[r].pc = "idle" /\ req'[r].pc # "idle"

\* request r has just been answered
Answered(r, kind) == req[r].pc = "done" /\ req[r].kind = kind

\* the accounts registered under an email, compared case-insensitively
AccountsOf(email) == {i \in DOMAIN users : Lower(users[i].email) = Lower(email)}

InvalidOtp == Resp(400, "Invalid or expired OTP", NoToken, "none")

Conflict == Resp(400, "User already exists with this email", NoToken, "none")

InvalidCredentials == Resp(401, "Invalid credentials", NoToken, "none")

----------------------------------------------------------------------------
(* Properties *)

\* C1: of the signup requests carrying one email, exactly one creates an
\* account, and every other one is answered with the duplicate-email
\* Conflict (400), never with any other outcome.
C1_SignupLoserGetsConflict ==
  /\ \A i, j \in DOMAIN users :
       i # j => Lower(users[i].email) # Lower(users[j].email)
  /\ \A r \in Reqs :
       (Answered(r, "signup") /\ req[r].resp.status # 201)
         => req[r].resp = Conflict

\* C2: once the account is verified, a verify-otp request that is answered
\* afterwards (the loser of two concurrent requests with the correct code)
\* gets the generic invalid-or-expired outcome and no session token.
C2_AtMostOneVerifySucceeds ==
  [][\A r \in Reqs :
       (/\ Completes(r)
        /\ req'[r].kind = "verify"
        /\ \E i \in AccountsOf(req'[r].email) : users[i].isEmailVerified)
         => req'[r].resp = InvalidOtp]_vars

\* the stored code of the account of email is otp, it has not expired and
\* the account is unverified
StoredCodeValid(email, otp) ==
  \E i \in AccountsOf(email) :
    /\ ~users[i].isEmailVerified
    /\ users[i].otp = otp
    /\ users[i].otpExpiry # Absent
    /\ now < users[i].otpExpiry

\* C3: with requests executed one after another, verify-otp with the stored
\* code before its expiry on an unverified account succeeds, sets
\* isEmailVerified and clears otp and otpExpiry; every later verify-otp with
\* the same email and code gets the invalid-or-expired outcome.
C3_VerifySucceedsOnce ==
  [][\A r \in Reqs :
       /\ (Starts(r) /\ req'[r].kind = "verify"
             /\ StoredCodeValid(req'[r].email, req'[r].otp))
            => req'[r].pc = "verify_save"
       /\ (req[r].pc = "verify_save" /\ Completes(r))
            => /\ req'[r].resp.status = 200
               /\ req'[r].resp.token.userId = req[r].doc
               /\ req[r].doc \in AccountsOf(req[r].email)
               /\ users'[req[r].doc].isEmailVerified
               /\ users'[req[r].doc].otp = Absent
               /\ users'[req[r].doc].otpExpiry = Absent
       /\ (Completes(r) /\ req'[r].kind = "verify"
             /\ [email |-> Lower(req'[r].email), otp |-> req'[r].otp] \in accepted)
            => /\ req'[r].resp = InvalidOtp
               /\ users' = users]_vars

\* C3 witness: a verify-otp with an email and code that were accepted
\* before has been answered with the invalid-or-expired outcome
C3_Witness ==
  \E r \in Reqs :
    /\ Answered(r, "verify")
    /\ [email |-> Lower(req[r].email), otp |-> req[r].otp] \in accepted
    /\ req[r].resp = InvalidOtp

\* the three failing cases of login, in the state the request found
UnverifiedCorrectPassword(r) ==
  \E i \in AccountsOf(req[r].email) :
    ~users[i].isEmailVerified /\ comparePassword(users[i].password, req[r].password)

VerifiedWrongPassword(r) ==
  \E i \in AccountsOf(req[r].email) :
    users[i].isEmailVerified /\ ~comparePassword(users[i].password, req[r].password)

NoSuchAccount(r) == AccountsOf(req[r].email) = {}

C5_GoogleIdUnique ==
  \A i, j \in DOMAIN users :
    (i # j /\ users[i].googleId # NoGoogleId)
      => users[i].googleId # users[j].googleId

\* C6: no two accounts have the same case-normalized email.
C6_EmailUnique ==
  \A i, j \in DOMAIN users :
    i # j => Lower(users[i].email) # Lower(users[j].email)

\* C6 witness: two requests raced to create the account of one email, and
\* the one that saved second has been refused by the store
C6_Witness ==
  \E r \in Reqs :
    /\ req[r].pc = "done"
    /\ req[r].kind \in {"signup", "google"}
    /\ req[r].resp.status = 500
    /\ AccountsOf(req[r].email) # {}

\* C7: password login issues no session token for an account that is
\* unverified when the request is made, whatever the password.
C7_NoLoginUnverified ==
  \A r \in Reqs :
    Answered(r, "login")
      => /\ (\E i \in AccountsOf(req[r].email) : ~users[i].isEmailVerified)
              => req[r].resp.token = NoToken /\ req[r].resp.status = 401
         /\ req[r].resp.token # NoToken
              => /\ req[r].resp.token.userId \in AccountsOf(req[r].email)
                 /\ users[req[r].resp.token.userId].isEmailVerified

\* C7 witness: a login with the right password on an unverified account
\* has been refused
C7_Witness ==
  \E r \in Reqs :
    /\ Answered(r, "login")
    /\ UnverifiedCorrectPassword(r)
    /\ req[r].resp.status = 401
    /\ req[r].resp.token = NoToken

\* C8: a successful signup leaves exactly one new account, unverified, with
\* a 6-digit otp and an otpExpiry 10 minutes after the issuance time; its
\* response carries no session token.
C8_SignupCreatesPending ==
  [][\A r \in Reqs :
       (Completes(r) /\ req'[r].kind = "signup" /\ req'[r].resp.status = 201)
         => /\ Len(users') = Len(users) + 1
            /\ \A i \in DOMAIN users : users'[i] = users[i]
            /\ users'[Len(users')].email = Lower(req'[r].email)
            /\ users'[Len(users')].isEmailVerified = FALSE
            /\ users'[Len(users')].otp >= 100000
            /\ users'[Len(users')].otp <= 999999
            /\ NumDigits(users'[Len(users')].otp) = 6
            /\ users'[Len(users')].otpExpiry = now + 600000
            /\ req'[r].resp.token = NoToken]_vars

\* C8 witness: a signup made after the clock has advanced has been answered
\* with 201, and the account it created is pending
C8_Witness ==
  \E r \in Reqs :
    /\ Answered(r, "signup")
    /\ req[r].resp.status = 201
    /\ now > 0
    /\ users[req[r].doc].otpExpiry = now + 600000
    /\ ~users[req[r].doc].isEmailVerified

\* the four failing cases of verify-otp, in the state the request finds
WrongCode(email, otp) == \E i \in AccountsOf(email) : users[i].otp # otp

RightCodeExpired(email, otp) ==
  \E i \in AccountsOf(email) :
    users[i].otp = otp /\ users[i].otpExpiry # Absent /\ now >= users[i].otpExpiry

AlreadyVerified(email) == \E i \in AccountsOf(email) : users[i].isEmailVerified

UnknownEmail(email) == AccountsOf(email) = {}

\* C9: verify-otp with a wrong code, with the right code at or after
\* otpExpiry, for a verified account or for an unknown email gets the same
\* generic response, and no stored field of any account changes.
C9_VerifyFailuresGeneric ==
  [][\A r \in Reqs :
       (/\ Starts(r)
        /\ req'[r].kind = "verify"
        /\ \/ WrongCode(req'[r].email, req'[r].otp)
           \/ RightCodeExpired(req'[r].email, req'[r].otp)
           \/ AlreadyVerified(req'[r].email)
           \/ UnknownEmail(req'[r].email))
         => /\ req'[r].pc = "done"
            /\ req'[r].resp = InvalidOtp
            /\ users' = users]_vars

\* C9 witness: a verify-otp with the stored, unexpired code of an account
\* that is already verified has been answered with the generic response
C9_Witness ==
  \E r \in Reqs :
    /\ Answered(r, "verify")
    /\ req[r].resp = InvalidOtp
    /\ \E i \in AccountsOf(req[r].email) :
         /\ users[i].isEmailVerified
         /\ users[i].otp = req[r].otp
         /\ users[i].otpExpiry # Absent
         /\ now < users[i].otpExpiry

\* C10: an account has an otp stored only while its verification is
\* pending: isEmailVerified implies otp and otpExpiry absent.
C10_OtpOnlyWhilePending ==
  \A i \in DOMAIN users :
    users[i].isEmailVerified
      => users[i].otp = Absent /\ users[i].otpExpiry = Absent

----------------------------------------------------------------------------
\* C11: in every reachable state, whatever the interleaving of signup,
\* resend-otp, verify-otp and federated login, every account has otp and
\* otpExpiry both present or both absent.
C11_OtpFieldsTogether ==
  \A i \in DOMAIN users :
    (users[i].otp = Absent) <=> (users[i].otpExpiry = Absent)

\* a resend whose save landed after a verify-otp had cleared both fields
\* has written both again
C11_Witness ==
  \E r \in Reqs :
    /\ Answered(r, "resend")
    /\ req[r].doc \in DOMAIN users
    /\ users[req[r].doc].isEmailVerified
    /\ users[req[r].doc].googleId = NoGoogleId
    /\ users[req[r].doc].otp # Absent
    /\ users[req[r].doc].otpExpiry # Absent

----------------------------------------------------------------------------
(* The token service and the gate, under SpecGate *)

\* a request enters authenticate and gets past its synchronous part
GateEnters == gate.pc = "idle" /\ gate'.pc # "idle"

\* authenticate answers or calls next()
GateAnswers == gate.pc # "done" /\ gate'.pc = "done"

\* the string after 'Bearer ' is a token this server signed
Issued(h) == h.present /\ h.prefix = "Bearer " /\ h.rest.sig = JwtSecret

NoTokenProvided ==
  [IdleGate EXCEPT !.pc = "done", !.status = 401,
                   !.message = "Access denied. No token provided."]

TokenNotValid ==
  [IdleGate EXCEPT !.pc = "done", !.status = 401,
                   !.message = "Token is not valid."]

UserNotFound ==
  [IdleGate EXCEPT !.pc = "done", !.status = 401,
                   !.message = "Token is not valid - user not found."]

\* C12: a token is issued with an expiry 7 days after its issuance second;
\* presented at an instant strictly before that expiry it passes token
\* verification, presented at the expiry instant or later it fails, and,
\* the clock never going back, it never verifies again after that.
C12_TokenValidUntilExpiry ==
  [][/\ now' >= now
     /\ \A r \in Reqs :
          (Completes(r) /\ req'[r].resp.token # NoToken)
            => /\ req'[r].resp.token.sig = JwtSecret
               /\ req'[r].resp.token.exp = (now \div 1000) + 604800
     /\ (GateEnters /\ Issued(gate'.header))
          => ((gate'.pc = "gate_find") <=> (now < gate'.header.rest.exp * 1000))
    ]_vars

\* the token the client keeps is presented at its very expiry instant and
\* is refused
C12_Witness ==
  /\ gate.pc = "done"
  /\ session # NoToken
  /\ gate.header = Bearer(session)
  /\ now = session.exp * 1000
  /\ gate.status = 401

\* C13: authenticate calls the downstream handler only if the header is
\* present and starts with 'Bearer ', the token verifies and the account
\* named by the token exists; an absent or malformed header and a token
\* that fails verification are answered 401 without calling the handler,
\* and an expired token gets the very response of a malformed or wrongly
\* signed one.
C13_GateLetsOnlyValidThrough ==
  [][/\ (gate.pc # "gate_find" /\ gate'.pc = "gate_find")
          => /\ gate.pc = "idle"
             /\ Issued(gate'.header)
             /\ now < gate'.header.rest.exp * 1000
             /\ gate'.userId = gate'.header.rest.userId
     /\ (~gate.next /\ gate'.next)
          => /\ gate.pc = "gate_find"
             /\ gate'.header = gate.header
             /\ gate.userId \in DOMAIN users \ deleted
             /\ gate'.user.id = gate.userId
     /\ (GateEnters /\ (~gate'.header.present \/ gate'.header.prefix # "Bearer "))
          => gate' = [NoTokenProvided EXCEPT !.header = gate'.header]
     /\ (GateEnters /\ gate'.header.present /\ gate'.header.prefix = "Bearer "
           /\ (\/ gate'.header.rest.sig # JwtSecret
               \/ now >= gate'.header.rest.exp * 1000))
          => gate' = [TokenNotValid EXCEPT !.header = gate'.header]
    ]_vars

\* a wrongly signed copy of the client's token has been refused
C13_Witness ==
  /\ gate.pc = "done"
  /\ session # NoToken
  /\ gate.header = Bearer(Forged(session))
  /\ now < session.exp * 1000
  /\ gate = [TokenNotValid EXCEPT !.header = gate.header]

\* C14: a token that verifies but names an account that is no longer in
\* the store is answered 401 and the downstream handler is not called.
C14_DeletedAccountRefused ==
  [][(gate.pc = "gate_find" /\ GateAnswers /\ gate.userId \in deleted)
       => gate' = [UserNotFound EXCEPT !.header = gate.header]
    ]_vars

\* the token of a removed account was presented before its expiry
C14_Witness ==
  /\ gate.pc = "done"
  /\ Issued(gate.header)
  /\ gate.header.rest.userId \in deleted
  /\ now < gate.header.rest.exp * 1000
  /\ gate.message = "Token is not valid - user not found."

\* C15: the token of a successful verify-otp or login names the account
\* that was verified or logged in; presented before its expiry while that
\* account exists, it gets through the gate, the gate attaches exactly
\* that account, and GET /api/auth/me answers with that account's id and
\* email and isEmailVerified = true.
C15_SessionResolvesToItsAccount ==
  [][/\ \A r \in Reqs :
          (Completes(r) /\ req'[r].resp.token # NoToken)
            => /\ req'[r].kind \in {"verify", "login"}
               /\ req'[r].resp.token.userId = req'[r].doc
               /\ req'[r].resp.token.email = users'[req'[r].doc].email
     /\ \A r \in Reqs :
          (req[r].pc = "done" /\ session' # session)
            => session' = req[r].resp.token
     /\ (GateEnters /\ session # NoToken /\ gate'.header = Bearer(session)
           /\ now < session.exp * 1000)
          => gate'.pc = "gate_find" /\ gate'.userId = session.userId
     /\ (gate.pc = "gate_find" /\ GateAnswers /\ gate.userId \notin deleted)
          => /\ gate'.next
             /\ gate'.status = 200
             /\ gate'.user.id = gate.header.rest.userId
             /\ gate'.user.email = gate.header.rest.email
             /\ gate'.body = [id |-> gate.header.rest.userId,
                              email |-> users[gate.header.rest.userId].email,
                              isEmailVerified |-> TRUE]
    ]_vars

\* the client's token, issued for the second account, got through the gate
C15_Witness ==
  /\ gate.pc = "done"
  /\ session # NoToken
  /\ gate.header = Bearer(session)
  /\ session.userId = 2
  /\ gate.next
  /\ gate.body.id = 2
  /\ gate.body.isEmailVerified

----------------------------------------------------------------------------
(* The notes router, under SpecNotes *)

NoteCompletes(r) == nreq[r].pc # "done" /\ nreq'[r].pc = "done"

\* the request names a note that exists and belongs to another identity
OthersNote(r) ==
  /\ nreq'[r].op \in {"get", "update", "delete", "pin"}
  /\ nreq'[r].id \in DOMAIN notes
  /\ ~notes[nreq'[r].id].removed
  /\ notes[nreq'[r].id].userId # nreq'[r].user
  /\ ~BodyError(nreq'[r].body)

\* C16: every operation of the notes router (list, get, create, update,
\* delete, toggle pin, stats) returns and changes only notes whose userId
\* is the identity the gate attached; a request of A for a note of B is
\* answered 404 and leaves the note as it was; a note created by A has
\* userId = A whatever the body carries, and no step changes a userId.
C16_NotesScopedToOwner ==
  [][/\ \A i \in DOMAIN notes :
          /\ i \in DOMAIN notes'
          /\ notes[i].removed => notes'[i] = notes[i]
          /\ ~notes'[i].removed => notes'[i].userId = notes[i].userId
     /\ notes' # notes => \E r \in Reqs : NoteCompletes(r)
     /\ \A r \in Reqs :
          NoteCompletes(r) =>
            /\ \A n \in nreq'[r].data :
                 /\ n.userId = nreq'[r].user
                 /\ n = View(notes', n.id)
            /\ \A i \in DOMAIN notes' :
                 /\ i \notin DOMAIN notes => notes'[i].userId = nreq'[r].user
                 /\ (i \in DOMAIN notes /\ notes'[i] # notes[i])
                      => notes[i].userId = nreq'[r].user
            /\ nreq'[r].op = "list"
                 => nreq'[r].data =
                      {View(notes, i) : i \in {j \in DOMAIN notes :
                         ~notes[j].removed /\ notes[j].userId = nreq'[r].user}}
            /\ nreq'[r].op = "stats"
                 => /\ nreq'[r].total =
                         Cardinality({j \in DOMAIN notes :
                            ~notes[j].removed /\ notes[j].userId = nreq'[r].user})
                    /\ nreq'[r].pinned =
                         Cardinality({j \in DOMAIN notes :
                            /\ ~notes[j].removed
                            /\ notes[j].userId = nreq'[r].user
                            /\ notes[j].isPinned})
            /\ OthersNote(r)
                 => /\ nreq'[r].status = 404
                    /\ nreq'[r].message = "Note not found"
                    /\ nreq'[r].data = {}
                    /\ notes' = notes
    ]_vars

\* identity 1 has asked to update a note of identity 2, with a body that
\* passes validation, and got 404
C16_Witness ==
  \E r \in Reqs :
    /\ nreq[r].pc = "done"
    /\ nreq[r].op = "update"
    /\ nreq[r].user = 1
    /\ nreq[r].id \in DOMAIN notes
    /\ ~notes[nreq[r].id].removed
    /\ notes[nreq[r].id].userId = 2
    /\ ~BodyError(nreq[r].body)
    /\ nreq[r].status = 404

----------------------------------------------------------------------------
(* Federated login, one request after another (SpecSeq) *)

\* C18: a federated login whose assertion the provider refuses is answered
\* 401, one whose verified profile lacks the email, the given name or the
\* family name is answered 400, and in both cases no account is created
\* or modified and no token is issued.
C18_RejectedAssertionAnswers ==
  [][\A r \in Reqs :
       (Completes(r) /\ req'[r].kind = "google"
          /\ req'[r].sub \in RejectedAssertions)
         => /\ req'[r].sub = "invalid" => req'[r].resp.status = 401
            /\ req'[r].sub \in {"no-email", "no-given-name", "no-family-name"}
                 => req'[r].resp.status = 400
            /\ req'[r].resp.token = NoToken
            /\ users' = users
    ]_vars

\* a federated login is answered right after one with the same profile
\* was answered with success
SecondLogin(r) ==
  /\ Completes(r)
  /\ req'[r].kind = "google"
  /\ lastGoogle # NoGoogle
  /\ req'[r].sub = lastGoogle.sub
  /\ req'[r].email = lastGoogle.email

GoogleAnswers(r) ==
  /\ Completes(r)
  /\ req'[r].kind = "google"
  /\ req'[r].sub \notin RejectedAssertions

----------------------------------------------------------------------------
(* resend-otp, one request after another (SpecSeq) *)

\* verify-otp with (email, otp) at time t would find an account in coll
CodeValidIn(coll, t, email, otp) ==
  \E i \in DOMAIN coll :
    /\ Lower(coll[i].email) = Lower(email)
    /\ ~coll[i].isEmailVerified
    /\ coll[i].otp = otp
    /\ coll[i].otpExpiry # Absent
    /\ t < coll[i].otpExpiry

\* resend-otp is answered 200
ResendSucceeds(r) ==
  /\ Completes(r)
  /\ req'[r].kind = "resend"
  /\ req'[r].resp.status = 200

\* C20: after a successful resend-otp for an unverified account the code
\* that was pending before no longer verifies, even if it had not expired,
\* and the newly issued code verifies until its issuance time plus 10
\* minutes.
C20_ResendKillsOldCode ==
  [][\A r \in Reqs :
       ResendSucceeds(r) =>
         /\ users[req'[r].doc].otp # Absent
              => ~CodeValidIn(users', now, req'[r].email, users[req'[r].doc].otp)
         /\ CodeValidIn(users', now, req'[r].email, req'[r].otp)
         /\ CodeValidIn(users', now + 600000 - 1, req'[r].email, req'[r].otp)
         /\ ~CodeValidIn(users', now + 600000, req'[r].email, req'[r].otp)
    ]_vars

\* C20, amended: after a successful resend-otp for an unverified account
\* the account stores the newly issued code with expiry = issuance time +
\* 10 minutes; the code that was pending before no longer verifies unless
\* the new code is the same six digits, and a verify-otp that submits the
\* stored code of an unverified account is accepted exactly when it
\* arrives before the stored expiry.
C20_ResendReplacesCode ==
  [][/\ \A r \in Reqs :
          ResendSucceeds(r) =>
            /\ users'[req'[r].doc].otp = req'[r].otp
            /\ users'[req'[r].doc].otpExpiry = now + 600000
            /\ ~users'[req'[r].doc].isEmailVerified
            /\ users[req'[r].doc].otp # req'[r].otp
                 => ~CodeValidIn(users', now, req'[r].email, users[req'[r].doc].otp)
            /\ CodeValidIn(users', now, req'[r].email, req'[r].otp)
            /\ CodeValidIn(users', now + 600000 - 1, req'[r].email, req'[r].otp)
            /\ ~CodeValidIn(users', now + 600000, req'[r].email, req'[r].otp)
     /\ \A r \in Reqs :
          (Starts(r) /\ req'[r].kind = "verify")
            => (CodeValidIn(users, now, req'[r].email, req'[r].otp)
                  <=> req'[r].pc = "verify_save")
     /\ \A r \in Reqs :
          (Completes(r) /\ req[r].pc = "verify_save")
            => req'[r].resp.status = 200 /\ req'[r].resp.token.userId = req[r].doc
    ]_vars

\* a resend at a later time has replaced the code of an account that is
\* still unverified, and answered 200
C20_Witness ==
  \E r \in Reqs :
    /\ Answered(r, "resend")
    /\ req[r].resp.status = 200
    /\ now > 0
    /\ ~users[req[r].doc].isEmailVerified
    /\ users[req[r].doc].otp = req[r].otp
    /\ users[req[r].doc].otpExpiry = now + OtpTtl

----------------------------------------------------------------------------
(* Failure paths of resend-otp and signup *)

\* C21: a resend-otp for an email that has no account, or whose account
\* is already verified, is answered 404 at once: no code is issued, no
\* email is sent and every account is left as it was.
C21_ResendNotFound ==
  [][\A r \in Reqs :
       (/\ Starts(r)
        /\ req'[r].kind = "resend"
        /\ \A i \in AccountsOf(req'[r].email) : users[i].isEmailVerified)
         => /\ req'[r].pc = "done"
            /\ req'[r].resp.status = 404
            /\ req'[r].resp.mailed = "none"
            /\ req'[r].resp.token = NoToken
            /\ req'[r].otp = Absent
            /\ users' = users
    ]_vars

\* a resend for an account that is verified and has a password was
\* answered 404
C21_Witness ==
  \E r \in Reqs :
    /\ Answered(r, "resend")
    /\ req[r].resp.status = 404
    /\ \E i \in AccountsOf(req[r].email) :
         users[i].isEmailVerified /\ users[i].password # NoPassword

\* C22: when the dispatch of the email fails during signup, the signup
\* still succeeds: the answer is 201 and the unverified account is stored
\* with its otp and its otpExpiry.
C22_SignupSurvivesMailFailure ==
  [][\A r \in Reqs :
       (Completes(r) /\ req'[r].kind = "signup" /\ req'[r].resp.mailed = "failed")
         => /\ req'[r].resp.status = 201
            /\ Len(users') = Len(users) + 1
            /\ SubSeq(users', 1, Len(users)) = users
            /\ req'[r].doc = Len(users')
            /\ users'[Len(users')].email = Lower(req'[r].email)
            /\ ~users'[Len(users')].isEmailVerified
            /\ users'[Len(users')].otp = req'[r].otp
            /\ users'[Len(users')].otp \in 100000..999999
            /\ users'[Len(users')].otpExpiry = now + 600000
            /\ comparePassword(users'[Len(users')].password, req'[r].password)
    ]_vars

\* a signup whose email could not be sent was answered 201, and its
\* account is in the store with a pending code
C22_Witness ==
  \E r \in Reqs :
    /\ Answered(r, "signup")
    /\ req[r].resp.mailed = "failed"
    /\ req[r].resp.status = 201
    /\ req[r].doc \in DOMAIN users
    /\ users[req[r].doc].otp = req[r].otp
    /\ ~users[req[r].doc].isEmailVerified

\* C23: a signup that is rejected, for a malformed body (invalid email,
\* password shorter than 6, missing, empty or over-long name) or for an
\* email that is already registered, changes nothing in the store and sends
\* no email: every account, the pending otp of the registered email
\* included, is as before.  A malformed body and a registered email are
\* rejected with 400 at the first step.
C23_RejectedSignupChangesNothing ==
  [][\A r \in Reqs :
       /\ (Completes(r) /\ req'[r].kind = "signup" /\ req'[r].resp.status # 201)
            => /\ users' = users
               /\ req'[r].resp.mailed = "none"
               /\ req'[r].resp.token = NoToken
               /\ req'[r].otp = Absent
       /\ (/\ Starts(r)
           /\ req'[r].kind = "signup"
           /\ \/ ~ValidEmail(req'[r].email)
              \/ Len(req'[r].password) < 6
              \/ AccountsOf(req'[r].email) # {})
            => /\ req'[r].pc = "done"
               /\ req'[r].resp.status = 400
               /\ users' = users
    ]_vars

\* a signup was rejected for an email whose account has a code pending
C23_Witness ==
  \E r \in Reqs :
    /\ Answered(r, "signup")
    /\ req[r].resp.status = 400
    /\ \E i \in AccountsOf(req[r].email) :
         ~users[i].isEmailVerified /\ users[i].otp # Absent

----------------------------------------------------------------------------
(* What the gate leaves alone *)

\* C24: the gate changes no persistent state: on the step where it reads
\* the header and on the step where it answers, on success and on every
\* failure, the accounts, the removed accounts and the notes are the same
\* after as before, and so are the token of the client, the clock and the
\* requests of the routes; its only effect is the account it attaches
\* when it lets the request through, and it attaches none when it refuses.
C24_GateChangesNothing ==
  [][(gate' # gate)
       => /\ users' = users
          /\ deleted' = deleted
          /\ notes' = notes
          /\ nreq' = nreq
          /\ session' = session
          /\ req' = req
          /\ now' = now
          /\ (gate'.pc = "done" /\ ~gate'.next) => gate'.user = NoUser
          /\ (gate'.pc = "done" /\ gate'.next)
               => /\ gate.userId \in DOMAIN users
                  /\ gate'.user = SelectPublic(users, gate.userId)
    ]_vars

\* the gate let a request through while another account still has a code
\* pending in the store
C24_Witness ==
  /\ gate.pc = "done"
  /\ gate.next
  /\ gate.user # NoUser
  /\ \E i \in DOMAIN users : ~users[i].isEmailVerified /\ users[i].otp # Absent

----------------------------------------------------------------------------
(* The password hash *)

\* C25: the password hash that signup stored is never changed: no step of
\* verify-otp, resend-otp, login or the federated login changes the
\* password field of an account (a save that did not assign the password
\* does not hash it again), the hash that signup stores matches the
\* password of the request, and an account created by the federated login
\* has none.
C25_PasswordHashStable ==
  [][/\ \A i \in DOMAIN users :
          i \in DOMAIN users' /\ users'[i].password = users[i].password
     /\ \A r \in Reqs :
          (Completes(r) /\ req'[r].kind = "signup" /\ req'[r].resp.status = 201)
            => /\ users'[req'[r].doc].password = Hash(req'[r].password)
               /\ comparePassword(users'[req'[r].doc].password, req'[r].password)
    ]_vars

\* a password login succeeded on an account that was verified and then
\* linked to a federated identity: both saves left the hash of signup
C25_Witness ==
  \E r \in Reqs :
    /\ Answered(r, "login")
    /\ req[r].resp.status = 200
    /\ req[r].doc \in DOMAIN users
    /\ users[req[r].doc].googleId # NoGoogleId
    /\ users[req[r].doc].otp = Absent
    /\ users[req[r].doc].password = Hash(req[r].password)

----------------------------------------------------------------------------
(* What the answers show of an account *)

Secrets == {"password", "otp", "otpExpiry"}

\* every key of the data of the answer in slot r, of its user and of the
\* payload of its token
ResponseKeys(r) ==
  LET data == ResponseData(r)
  IN DOMAIN data
       \cup (IF "user" \in DOMAIN data THEN DOMAIN data.user ELSE {})
       \cup (IF "token" \in DOMAIN data THEN DOMAIN data.token ELSE {})

\* C26: no answer of signup, verify-otp, login, the federated login or
\* resend-otp contains the password hash, the otp or the otpExpiry of an
\* account, in its data, in its user or in the payload of its token; and
\* for every stored account, the account the gate attaches and the user
\* that the current-identity route answers contain none of them.
C26_NoSecretInAnswers ==
  /\ \A r \in Reqs : ResponseKeys(r) \cap Secrets = {}
  /\ \A i \in DOMAIN users :
       /\ DOMAIN SelectPublic(users, i) \cap Secrets = {}
       /\ DOMAIN Me(SelectPublic(users, i)) \cap Secrets = {}
       /\ DOMAIN generateToken(i, users[i]) \cap Secrets = {}
  /\ DOMAIN gate.user \cap Secrets = {}
  /\ DOMAIN gate.body \cap Secrets = {}

\* a login was answered with the token and the user of an account that
\* has a password hash, while another account has a code pending
C26_Witness ==
  \E r \in Reqs :
    /\ Answered(r, "login")
    /\ req[r].resp.status = 200
    /\ "user" \in DOMAIN ResponseData(r)
    /\ users[req[r].doc].password # NoPassword
    /\ \E i \in DOMAIN users : users[i].otp # Absent /\ users[i].otpExpiry # Absent

----------------------------------------------------------------------------
(* resend-otp when the email cannot be sent *)

\* resend-otp is answered after sendOTPEmail rejected
ResendMailFails(r) ==
  /\ Completes(r)
  /\ req'[r].kind = "resend"
  /\ req'[r].resp.mailed = "failed"

\* C27: when the dispatch of the email fails during resend-otp the caller
\* receives an error, and the store has been updated all the same: the
\* new otp and otpExpiry are stored and the code that was delivered before
\* no longer verifies.
C27_FailedResendKillsOldCode ==
  [][\A r \in Reqs :
       ResendMailFails(r) =>
         /\ req'[r].resp.status = 500
         /\ req'[r].resp.token = NoToken
         /\ users'[req'[r].doc].otp = req'[r].otp
         /\ users'[req'[r].doc].otpExpiry = now + 600000
         /\ ~CodeValidIn(users', now, req'[r].email, users[req'[r].doc].otp)
    ]_vars

\* C27, amended: when the dispatch of the email fails during resend-otp
\* the caller receives the error 500 and no token, and the store has been
\* updated all the same: the new otp and otpExpiry = now + 10 minutes are
\* stored, the new code verifies, and the code that was delivered before
\* no longer verifies unless the new code is the same six digits.
C27_FailedResendReplacesCode ==
  [][\A r \in Reqs :
       ResendMailFails(r) =>
         /\ req'[r].resp.status = 500
         /\ req'[r].resp.token = NoToken
         /\ users'[req'[r].doc].otp = req'[r].otp
         /\ users'[req'[r].doc].otpExpiry = now + 600000
         /\ \A i \in DOMAIN users : i # req'[r].doc => users'[i] = users[i]
         /\ CodeValidIn(users', now, req'[r].email, req'[r].otp)
         /\ users[req'[r].doc].otp # req'[r].otp
              => ~CodeValidIn(users', now, req'[r].email, users[req'[r].doc].otp)
    ]_vars

\* a resend at a later time was answered 500 because the email could not
\* be sent, and the account stores the code of that resend
C27_Witness ==
  \E r \in Reqs :
    /\ Answered(r, "resend")
    /\ req[r].resp.mailed = "failed"
    /\ req[r].resp.status = 500
    /\ now > 0
    /\ ~users[req[r].doc].isEmailVerified
    /\ users[req[r].doc].otp = req[r].otp
    /\ users[req[r].doc].otpExpiry = now + OtpTtl

----------------------------------------------------------------------------
(* The gate when the store fails *)

\* C28: a failure of the store while the gate resolves the account of a
\* token that verified is answered with the generic server error 500, not
\* with the 401 of a token that is not valid.
C28_StoreFailureIs500 ==
  (gate.pc = "done" /\ gate.storeFailed)
    => /\ gate.status = 500
       /\ gate.message = "Server error in authentication."

----------------------------------------------------------------------------
(* The mock token of the development button *)

\* C29: the mock assertion 'mock_google_token_for_development' yields an
\* account and a session token without provider verification only when
\* NODE_ENV is exactly 'development': there its request is answered 200
\* with the token of the account of the mock profile, linked or created;
\* under any other or unset NODE_ENV the string goes to the provider
\* verification, the request is answered at once with an error and no
\* token, and no account changes.
C29_MockOnlyInDevelopment ==
  [][\A r \in Reqs :
       /\ (Starts(r) /\ req'[r].kind = "mock" /\ nodeEnv # "development")
            => /\ req'[r].pc = "done"
               /\ req'[r].resp.status = 500
               /\ req'[r].resp.token = NoToken
               /\ users' = users
       /\ (req'[r].kind = "mock" /\ req'[r] # req[r]
             /\ (users' # users \/ req'[r].resp.token # NoToken))
            => nodeEnv = "development"
       /\ (Completes(r) /\ req'[r].kind = "mock" /\ nodeEnv = "development")
            => /\ req'[r].resp.status = 200
               /\ req'[r].resp.message = "Development Google login successful"
               /\ req'[r].doc \in DOMAIN users'
               /\ req'[r].resp.token.userId = req'[r].doc
               /\ users'[req'[r].doc].isEmailVerified
               /\ users'[req'[r].doc].googleId # NoGoogleId
               /\ \/ users'[req'[r].doc].email = MockEmail
                  \/ users'[req'[r].doc].googleId = MockSub
    ]_vars

\* in development the mock token has taken over an account that was
\* signed up with the email of the mock profile and not yet verified
C29_Witness ==
  \E r \in Reqs :
    /\ Answered(r, "mock")
    /\ nodeEnv = "development"
    /\ req[r].resp.status = 200
    /\ req[r].resp.token # NoToken
    /\ users[req[r].doc].password # NoPassword
    /\ users[req[r].doc].googleId = MockSub

----------------------------------------------------------------------------
(* Password login and the proof of the email *)

\* C30: a successful password login for an account is preceded by a
\* successful verify-otp for that same account: the password chosen at
\* signup cannot be used to log in unless the code sent to that email was
\* accepted, in particular not when the account became verified only by
\* being linked to a federated identity.
C30_LoginOnlyAfterOtp ==
  \A r \in Reqs :
    (Answered(r, "login") /\ req[r].resp.status = 200)
      => \E a \in accepted : a.email = users[req[r].doc].email

----------------------------------------------------------------------------
(* Whose token a federated login returns *)

\* C31: a successful federated login returns a session token only for an
\* account whose stored federated id equals the subject of the verified
\* assertion, also when the account was found by email and already
\* carries another federated id, or when one account matches the profile
\* by email and another by federated id.
C31_TokenForSubjectHolder ==
  \A r \in Reqs :
    (Answered(r, "google") /\ req[r].resp.status = 200)
      => /\ req[r].resp.token.userId = req[r].doc
         /\ users[req[r].doc].googleId = req[r].sub

----------------------------------------------------------------------------
(* Tokens and the verified flag *)

\* C32: every session token is issued for an account whose
\* isEmailVerified is true in the store at the moment of issuance, on the
\* four issuing paths (verify-otp, login, the federated login with a
\* verified assertion and with the mock token); and an account with a
\* federated id is always verified.
C32_TokenOnlyForVerified ==
  [][/\ \A r \in Reqs :
          (Completes(r) /\ req'[r].resp.token # NoToken)
            => /\ req'[r].kind \in {"verify", "login", "google", "mock"}
               /\ req'[r].resp.token.userId = req'[r].doc
               /\ req'[r].doc \in DOMAIN users'
               /\ users'[req'[r].doc].isEmailVerified
     /\ \A i \in DOMAIN users' :
          users'[i].googleId # NoGoogleId => users'[i].isEmailVerified
    ]_vars

\* a token was issued by the mock branch for an account that verify-otp
\* had verified, while another account is still unverified
C32_Witness ==
  \E r \in Reqs :
    /\ Answered(r, "mock")
    /\ req[r].resp.token # NoToken
    /\ users[req[r].doc].password # NoPassword
    /\ users[req[r].doc].otp = Absent
    /\ \E a \in accepted : a.email = users[req[r].doc].email
    /\ \E j \in DOMAIN users : ~users[j].isEmailVerified

\* C33: isEmailVerified is monotonic: once the flag of an account is
\* true, no step of signup, resend-otp, verify-otp, login or the federated
\* login, in any interleaving, sets it back to false (and no account
\* disappears).
C33_VerifiedIsMonotonic ==
  [][\A i \in DOMAIN users :
       /\ i \in DOMAIN users'
       /\ users[i].isEmailVerified => users'[i].isEmailVerified
    ]_vars

\* the save of a resend-otp has landed on an account that a verify-otp
\* or a federated login verified in between
C33_Witness ==
  \E r \in Reqs :
    /\ Answered(r, "resend")
    /\ req[r].doc \in DOMAIN users
    /\ users[req[r].doc].isEmailVerified
    /\ users[req[r].doc].otp = req[r].otp

----------------------------------------------------------------------------
(* An unverified account can always be verified *)

\* C34: an unverified account is never stuck.  A resend-otp that succeeds
\* for it stores the new code with a fresh expiry; until a resend-otp, a
\* verify-otp or a federated login saves that account, no step (a wrong
\* or late verify-otp, a login, a signup, the passing of time) changes
\* its stored code; and a verify-otp that submits the stored code of an
\* unverified account before its expiry goes on to save and is answered
\* 200 with the account verified, however many codes expired before.
C34_NeverStuck ==
  [][/\ \A r \in Reqs :
          (ResendSucceeds(r) /\ ~users[req'[r].doc].isEmailVerified)
            => /\ ~users'[req'[r].doc].isEmailVerified
               /\ users'[req'[r].doc].otp = req'[r].otp
               /\ users'[req'[r].doc].otpExpiry > now
     /\ \A i \in DOMAIN users :
          users'[i] # users[i]
            => \E r \in Reqs :
                 /\ Completes(r)
                 /\ req'[r].doc = i
                 /\ req[r].pc \in {"resend_save", "verify_save", "google_link"}
     /\ \A r \in Reqs :
          (/\ Starts(r)
           /\ req'[r].kind = "verify"
           /\ \E i \in AccountsOf(req'[r].email) :
                /\ ~users[i].isEmailVerified
                /\ users[i].otp = req'[r].otp
                /\ users[i].otpExpiry # Absent
                /\ now < users[i].otpExpiry)
            => /\ req'[r].pc = "verify_save"
               /\ req'[r].doc \in AccountsOf(req'[r].email)
     /\ \A r \in Reqs :
          (Completes(r) /\ req[r].pc = "verify_save")
            => /\ req'[r].resp.status = 200
               /\ req'[r].resp.token # NoToken
               /\ users'[req[r].doc].isEmailVerified
    ]_vars

\* a verify-otp was accepted at a later time for one account while the
\* code of another unverified account has expired
C34_Witness ==
  \E r \in Reqs :
    /\ Answered(r, "verify")
    /\ req[r].resp.status = 200
    /\ now > 0
    /\ users[req[r].doc].isEmailVerified
    /\ \E j \in DOMAIN users :
         /\ ~users[j].isEmailVerified
         /\ users[j].otpExpiry # Absent
         /\ users[j].otpExpiry <= now

----------------------------------------------------------------------------
(* Notes: the owner and the pin *)

\* C35: the userId of a note is fixed at creation: a created note has
\* the userId of the account that created it, and no update, toggle-pin or
\* other request to the notes router, by any account and with any body,
\* changes the userId of a note that exists before and after the step.
C35_NoteOwnerFixed ==
  [][/\ \A i \in DOMAIN notes :
          /\ i \in DOMAIN notes'
          /\ (~notes[i].removed /\ ~notes'[i].removed)
               => notes'[i].userId = notes[i].userId
     /\ \A r \in Reqs :
          (NoteCompletes(r) /\ nreq'[r].op = "create" /\ nreq'[r].status = 201)
            => /\ Len(notes') = Len(notes) + 1
               /\ notes'[Len(notes')].userId = nreq'[r].user
     /\ \A r \in Reqs :
          (NoteCompletes(r) /\ nreq'[r].body.userId # Absent)
            => nreq'[r].status = 400 /\ notes' = notes
    ]_vars

\* an update that names another account as userId was refused for a note
\* of the requesting account
C35_Witness ==
  \E r \in Reqs :
    /\ nreq[r].pc = "done"
    /\ nreq[r].op = "update"
    /\ nreq[r].status = 400
    /\ nreq[r].body.userId \in NoteUsers \ {nreq[r].user}
    /\ nreq[r].id \in DOMAIN notes
    /\ ~notes[nreq[r].id].removed
    /\ notes[nreq[r].id].userId = nreq[r].user

\* a toggle-pin is answered with success
PinSucceeds(r) ==
  /\ NoteCompletes(r)
  /\ nreq'[r].op = "pin"
  /\ nreq'[r].status = 200

\* C36: a toggle-pin by the owner flips the isPinned of the note and
\* changes no other field of the note; two toggle-pin requests executed
\* one after another restore the original isPinned.
C36_ToggleChangesOnlyPin ==
  [][\A r \in Reqs :
       PinSucceeds(r)
         => /\ notes'[nreq'[r].id] = [notes[nreq'[r].id] EXCEPT !.isPinned = ~@]
            /\ lastPin.id = nreq'[r].id
                 => notes'[nreq'[r].id].isPinned = lastPin.before
    ]_vars

\* C36, amended: a toggle-pin by the owner flips the isPinned of the note,
\* sets its updatedAt to the time of the save and changes no other field
\* of it, nor any other note; of two toggle-pin requests on a note
\* executed one after another, with no write to the notes in between, the
\* second restores the isPinned the note had before the first.  A
\* toggle-pin by another account is refused and changes nothing.
C36_ToggleFlipsAndRestores ==
  [][\A r \in Reqs :
       /\ PinSucceeds(r)
            => /\ notes[nreq'[r].id].userId = nreq'[r].user
               /\ notes'[nreq'[r].id] =
                    [notes[nreq'[r].id] EXCEPT !.isPinned = ~@, !.updatedAt = now]
               /\ \A j \in DOMAIN notes : j # nreq'[r].id => notes'[j] = notes[j]
               /\ Len(notes') = Len(notes)
               /\ lastPin.id = nreq'[r].id
                    => notes'[nreq'[r].id].isPinned = lastPin.before
       /\ (NoteCompletes(r) /\ nreq'[r].op = "pin" /\ nreq'[r].status # 200)
            => notes' = notes
    ]_vars

\* the second of two toggle-pin requests on one note has unpinned it again
C36_Witness ==
  \E r \in Reqs :
    /\ nreq[r].pc = "done"
    /\ nreq[r].op = "pin"
    /\ nreq[r].status = 200
    /\ lastPin.id = nreq[r].id
    /\ lastPin.before
    /\ ~notes[nreq[r].id].isPinned
    /\ notes[nreq[r].id].updatedAt > 0
    /\ nreq[r].message = "Note unpinned successfully"

\* C37: every successful toggle-pin takes effect exactly once: the step
\* that answers it flips the isPinned the note has in the store at that
\* moment, so that after two concurrent successful toggle-pin requests on
\* one note, with no other write, the note has the isPinned it had before
\* the two (no toggle is lost to the read-then-save interleaving).
C37_NoLostToggle ==
  [][\A r \in Reqs :
       PinSucceeds(r)
         => notes'[nreq'[r].id].isPinned = ~notes[nreq'[r].id].isPinned
    ]_vars

----------------------------------------------------------------------------
(* The order of the note list *)

\* in list every pinned note comes before every unpinned one
PinnedFirst(list) ==
  \A a, b \in DOMAIN list :
    (list[a].isPinned /\ ~list[b].isPinned) => a < b

\* C38: in every page that the note list returns, for every sortBy and
\* order, every pinned note precedes every unpinned note, and the list
\* contains only notes of the requesting account (each of them once).
C38_PinnedFirstOwnOnly ==
  \A r \in Reqs :
    (nreq[r].pc = "done" /\ nreq[r].op = "list")
      => /\ PinnedFirst(nreq[r].page)
         /\ \A pg \in 1..MaxNotes, lim \in 1..MaxNotes :
              PinnedFirst(Slice(nreq[r].page, pg, lim))
         /\ \A a \in DOMAIN nreq[r].page :
              /\ nreq[r].page[a].userId = nreq[r].user
              /\ nreq[r].page[a].id \in FindNotes(notes, nreq[r].user)
         /\ {nreq[r].page[a].id : a \in DOMAIN nreq[r].page}
              = FindNotes(notes, nreq[r].user)
         /\ Len(nreq[r].page) = nreq[r].total

\* a list of two notes was answered with the pinned note first, although
\* it was created first and updated last
C38_Witness ==
  \E r \in Reqs :
    /\ nreq[r].pc = "done"
    /\ nreq[r].op = "list"
    /\ Len(nreq[r].page) = 2
    /\ nreq[r].page[1].isPinned
    /\ ~nreq[r].page[2].isPinned
    /\ nreq[r].page[1].id < nreq[r].page[2].id
    /\ notes[nreq[r].page[1].id].updatedAt > notes[nreq[r].page[2].id].updatedAt

\* C39: in the web client, whenever isAuthenticated is true a session token
\* is present in localStorage, and a logout removes the stored token and
\* the stored user and leaves isAuthenticated false; also when logout or
\* login happens while the startup check awaits the backend.
C39_AuthenticatedHasToken ==
  [][/\ isAuthenticated(client') => getStoredToken(client') # "none"
     /\ logout => /\ getStoredToken(client') = "none"
                  /\ getStoredUser(client') = "none"
                  /\ ~isAuthenticated(client')]_vars

\* C40: the startup of the client ends with isLoading = false and
\* isLoading stays false; when the stored token and user exist and the
\* backend rejects the token (an unsuccessful response, a response without
\* data, or an error) the stored token and user are removed and the step
\* leaves the user state as it was; when the token or the user is missing
\* no backend call is made and the user state is left as it was; a startup
\* during which no login or logout took place ends unauthenticated in both
\* cases; and every startup does end.
C40_StartupEnds ==
  /\ [][/\ (client.pc # "done" /\ client'.pc = "done") => ~client'.isLoading
        /\ client.pc = "done" => (client'.pc = "done" /\ ~client'.isLoading)
        /\ (client.pc = "awaiting" /\ client'.answer = "rejected")
             => /\ getStoredToken(client') = "none"
                /\ getStoredUser(client') = "none"
                /\ client'.user = client.user
        /\ ( /\ client.pc = "mount"
             /\ client'.pc # "mount"
             /\ (getStoredToken(client) = "none" \/ getStoredUser(client) = "none"))
             => /\ client'.pc = "done"
                /\ client'.sent = "none"
                /\ client'.user = client.user]_vars
  /\ []((client.pc = "done" /\ ~client.touched)
          => /\ client.answer = "rejected"
                  => /\ ~isAuthenticated(client)
                     /\ getStoredToken(client) = "none"
                     /\ getStoredUser(client) = "none"
             /\ client.answer = "skipped"
                  => /\ ~isAuthenticated(client)
                     /\ client.sent = "none")
  /\ <>[](client.pc = "done" /\ ~client.isLoading)

\* the startup check found a token and a user, the backend rejected the
\* token, and the client is left with empty storage, not loading
C40_Witness ==
  /\ client.pc = "done"
  /\ client.answer = "rejected"
  /\ client.sent # "none"
  /\ ~client.touched
  /\ ~client.isLoading
  /\ getStoredToken(client) = "none"
  /\ getStoredUser(client) = "none"
  /\ ~isAuthenticated(client)

====
